---- MODULE Spec2Model ----
(***************************************************************************)
(* Mockmate backend: the interview session lifecycle and the AI gateway.  *)
(*                                                                         *)
(* The committed database (users, interview_sessions,                      *)
(* interview_questions, question_feedback) is the shared state.  Every     *)
(* HTTP request runs in its own SQLAlchemy session (get_db) with           *)
(* autocommit=False, autoflush=False:                                      *)
(* attribute changes and added objects stay in the request's unit of work  *)
(* until flush()/commit(); SQL queries read the database (the rows other   *)
(* requests committed, plus what this request itself flushed).  A request  *)
(* that raises is rolled back by get_db.  The AI gateway (ai_service.py)   *)
(* is computed on the provider's response as the Python code computes it,  *)
(* exceptions included.                                                    *)
(***************************************************************************)
EXTENDS Integers, Sequences, FiniteSets, TLC

\* ---------------------------------------------------------------- bounds
MaxSessions == 1        \* sessions that may exist in the lifecycle runs
QCountBound == 3        \* largest question_count used in the lifecycle runs
NumSlots    == 2        \* requests that may be in flight at once
MaxStartSessions == 2   \* sessions that may exist in the start-only runs
MaxTwinSessions == 2    \* sessions that are answered side by side
MaxStoredSessions == 3  \* sessions in the store that analytics and history read
MaxUsers == 2           \* accounts that may be registered
TicksPerDay == 2        \* instants of the clock in one UTC calendar day

\* ------------------------------------------------------ program constants
MinQuestions == 3       \* StartInterviewRequest.question_count ge=3
MaxQuestions == 10      \* StartInterviewRequest.question_count le=10
MinScore == 0           \* evaluate_answer: max(0, ...)
MaxScore == 100         \* evaluate_answer: min(100, ...)
MaxListItems == 5       \* evaluate_answer: strengths[:5], improvements[:5]
TimeoutSeconds == 30    \* httpx.Client(timeout=30.0)
DaysInTrend == 7        \* _get_weekly_scores: for i in range(6, -1, -1)
FirstInstant == 0       \* the clock when the first row is inserted

Users      == {"u1", "u2"}
\* SubmitAnswerRequest.answer (non-empty): the text names the request slot
\* that sent it, so the stored text tells which request wrote it
AnswerOf(r) == IF r = 1 THEN "a1" ELSE IF r = 2 THEN "a2" ELSE "a3"
RawScores  == {40, 150}             \* "score" values the provider may send
NoAnswer   == "None"                \* user_answer IS NULL
NullScore  == [sum |-> 0, len |-> 0]   \* final_score IS NULL

\* HTTP statuses
OK200 == 200
Created201 == 201
BadRequest400 == 400
Unauthorized401 == 401
Forbidden403 == 403
NotFound404 == 404
ServerError500 == 500
BadGateway502 == 502
Unavailable503 == 503

VARIABLES
    users,       \* committed users: id -> row
    sessions,    \* committed interview_sessions: id -> row
    questions,   \* committed interview_questions: id -> row
    feedback,    \* committed question_feedback: question_id -> its rows, in insertion order
    req          \* the requests in flight: slot -> request-local state

vars == <<users, sessions, questions, feedback, req>>

Slots == DOMAIN req

\* ----------------------------------------------------------------- helpers
RECURSIVE SumSeq(_)
SumSeq(s) == IF s = <<>> THEN 0 ELSE Head(s) + SumSeq(Tail(s))

RECURSIVE ScoreColumn(_)
\* [f.score for f in rows]
ScoreColumn(rows) ==
    IF rows = <<>> THEN <<>> ELSE <<Head(rows).score>> \o ScoreColumn(Tail(rows))

RECURSIVE SelectScores(_, _)
\* the score column of the feedback rows whose question is in qs
SelectScores(fb, qs) ==
    IF qs = {} THEN <<>>
    ELSE LET q == CHOOSE x \in qs : TRUE
         IN  ScoreColumn(fb[q]) \o SelectScores(fb, qs \ {q})

Max(a, b) == IF a >= b THEN a ELSE b
Min(a, b) == IF a <= b THEN a ELSE b

\* ai_service.py: data["score"] = max(0, min(100, int(data["score"])))
\* mutant: the score is not clamped
ClampNothing(s) == s
ClampScore(s) == Max(MinScore, Min(MaxScore, s))

\* ai_service.py generate_questions: fewer than count -> 502, else the
\* first count texts.  texts is the provider's "questions" list.
\* mutant: only an empty list is refused
QuestionsNone(texts, count) == Len(texts) = 0
QuestionsTooFew(texts, count) == Len(texts) = 0 \/ Len(texts) < count
\* mutant: the safety cap questions[:count] is missing
TruncateNothing(texts, count) == texts
TruncateQuestions(texts, count) == SubSeq(texts, 1, Min(Len(texts), count))

\* The provider's list of m question texts; text k is the k-th it wrote.
ProviderList(m) == [k \in 1..m |-> k]

\* -------------------------------------------------------------- JSON values
\* A value as Python holds it after json.loads: t is its Python type, v its
\* content.  A "str" holds its characters (0..9 are the digits, larger
\* numbers are letters), a "list" its items, an "object" (dict) its
\* key -> value mapping.  A "text" is a str that is handed to a JSON parser:
\* ok tells whether it is valid JSON, v is the value it denotes.
JNull == [t |-> "null", v |-> 0]
JInt(n) == [t |-> "int", v |-> n]
JStr(chars) == [t |-> "str", v |-> chars]
JList(items) == [t |-> "list", v |-> items]
JObj(members) == [t |-> "object", v |-> members]
JText(doc) == [t |-> "text", ok |-> TRUE, v |-> doc]
NotJson == [t |-> "text", ok |-> FALSE, v |-> JNull]

\* The outcome of a Python expression: its value, or the exception raised.
Ok(v) == [exc |-> "none", status |-> 0, detail |-> "", val |-> v]
Raise(e) == [exc |-> e, status |-> 0, detail |-> "", val |-> JNull]
\* raise HTTPException(status_code=st, detail=why)
HTTPError(st, why) == [exc |-> "HTTPException", status |-> st, detail |-> why, val |-> JNull]
Raised(res) == res.exc # "none"

\* json.loads(j) / response.json(); an exception raised while computing
\* the argument propagates, here and in the operators below
JsonLoads(res) ==
    IF Raised(res) THEN res
    ELSE IF res.val.t = "text"
    THEN (IF res.val.ok THEN Ok(res.val.v) ELSE Raise("JSONDecodeError"))
    ELSE IF res.val.t = "str" THEN Raise("JSONDecodeError")
    ELSE Raise("TypeError")

\* j[k] for a str key k
GetKey(res, k) ==
    IF Raised(res) THEN res
    ELSE IF res.val.t = "object"
    THEN (IF k \in DOMAIN res.val.v THEN Ok(res.val.v[k]) ELSE Raise("KeyError"))
    ELSE Raise("TypeError")

\* j[i] for an int index i >= 0
GetIndex(res, i) ==
    IF Raised(res) THEN res
    ELSE IF res.val.t = "list"
    THEN (IF i < Len(res.val.v) THEN Ok(res.val.v[i + 1]) ELSE Raise("IndexError"))
    ELSE IF res.val.t = "str"
    THEN (IF i < Len(res.val.v) THEN Ok(JStr(<<res.val.v[i + 1]>>))
          ELSE Raise("IndexError"))
    ELSE IF res.val.t = "object" THEN Raise("KeyError")
    ELSE Raise("TypeError")

\* data.get(k, default)
DictGet(res, k, default) ==
    IF Raised(res) THEN res
    ELSE IF res.val.t = "object"
    THEN Ok(IF k \in DOMAIN res.val.v THEN res.val.v[k] ELSE default)
    ELSE Raise("AttributeError")

\* not j
Falsy(j) ==
    \/ j.t = "null"
    \/ j.t = "int" /\ j.v = 0
    \/ j.t \in {"str", "list"} /\ j.v = <<>>
    \/ j.t = "object" /\ DOMAIN j.v = {}

\* j[:n] for n >= 0.  Slicing a dict raises TypeError (KeyError from
\* Python 3.12 on); neither is caught by the callers.
Slice(j, n) ==
    IF j.t \in {"list", "str"}
    THEN Ok([j EXCEPT !.v = SubSeq(@, 1, Min(Len(@), n))])
    ELSE Raise("TypeError")

RECURSIVE DecimalValue(_)
DecimalValue(chars) ==
    IF chars = <<>> THEN 0
    ELSE 10 * DecimalValue(SubSeq(chars, 1, Len(chars) - 1)) + chars[Len(chars)]

\* int(j)
PyInt(j) ==
    IF j.t = "int" THEN Ok(j.v)
    ELSE IF j.t = "str"
    THEN (IF j.v # <<>> /\ \A i \in DOMAIN j.v : j.v[i] < 10
          THEN Ok(DecimalValue(j.v)) ELSE Raise("ValueError"))
    ELSE Raise("TypeError")

\* for idx, text in enumerate(j): the items of a list, the characters of a str
Iterate(j) ==
    IF j.t = "str" THEN [i \in DOMAIN j.v |-> JStr(<<j.v[i]>>)] ELSE j.v

\* pydantic list[str]
IsListOfStr(j) == j.t = "list" /\ \A i \in DOMAIN j.v : j.v[i].t = "str"

\* ------------------------------------------------------------ the AI gateway
\* What the provider does with one request: whether the connection is
\* made, how long it stays silent, and the HTTP response it sends.
NoResponse == [connect |-> FALSE, silence |-> 0, status_code |-> 0, content |-> NotJson]

\* client.post(...) under httpx.Client(timeout=30.0): a refused connection
\* and a provider silent for longer than the timeout raise transport errors.
Post(response) ==
    IF ~response.connect THEN Raise("ConnectError")
    ELSE IF response.silence > TimeoutSeconds THEN Raise("ReadTimeout")
    ELSE Ok(response)

\* httpx Response.is_success
IsSuccess(code) == code \in 200..299

\* ai_service.py 65-84
ExtractJson(response) ==
    LET tried ==
          IF ~IsSuccess(response.status_code) THEN Raise("HTTPStatusError")
          ELSE LET content == JsonLoads(Ok(response.content))
                   choice == GetIndex(GetKey(content, "choices"), 0)
                   raw_text == GetKey(GetKey(choice, "message"), "content")
               IN  JsonLoads(raw_text)
    IN  IF tried.exc \in {"JSONDecodeError", "KeyError"}
        THEN HTTPError(BadGateway502, "AI returned invalid response")
        ELSE IF tried.exc = "HTTPStatusError"
        THEN HTTPError(Unavailable503, "AI service error")
        ELSE tried

\* ai_service.py 116-125: the checks on data.get("questions", [])
CheckQuestions(qs, count) ==
    IF Falsy(qs)
    THEN HTTPError(BadGateway502, "AI did not return the expected number of questions.")
    ELSE IF qs.t \in {"list", "str"}
    THEN (IF QuestionsTooFew(qs.v, count)
          THEN HTTPError(BadGateway502,
                         "AI did not return the expected number of questions.")
          ELSE Ok([qs EXCEPT !.v = TruncateQuestions(@, count)]))
    ELSE IF qs.t = "object"
    THEN (IF Cardinality(DOMAIN qs.v) < count
          THEN HTTPError(BadGateway502,
                         "AI did not return the expected number of questions.")
          ELSE Slice(qs, count))
    ELSE Raise("TypeError")

\* ai_service.py 109-125
GenerateQuestions(response, count) ==
    IF Raised(Post(response)) THEN Post(response)
    ELSE LET found == DictGet(ExtractJson(response), "questions", JList(<<>>))
         IN  IF Raised(found) THEN found
             ELSE CheckQuestions(found.val, count)

RequiredKeys == {"score", "overall_feedback", "strengths", "improvements"}

\* mutant: the required-keys check only looks for "score"
OnlyScoreRequired(data) == "score" \notin DOMAIN data.v
\* not required_keys.issubset(data.keys())
MissingRequiredKeys(data) == ~(RequiredKeys \subseteq DOMAIN data.v)

\* mutant: the lists are stored as the provider sent them
KeepWholeList(j) == Ok(j)
\* data.get(key, [])[:5]
TruncateFeedbackList(j) == Slice(j, MaxListItems)

\* ai_service.py 169-182: the checks and coercions on the parsed object
CheckEvaluation(data) ==
    IF data.t # "object" THEN Raise("AttributeError")
    ELSE IF MissingRequiredKeys(data)
    THEN HTTPError(BadGateway502, "AI response missing required feedback fields.")
    ELSE LET score == PyInt(data.v["score"])
             strengths == TruncateFeedbackList(
                              IF "strengths" \in DOMAIN data.v
                              THEN data.v["strengths"] ELSE JList(<<>>))
             improvements == TruncateFeedbackList(
                              IF "improvements" \in DOMAIN data.v
                              THEN data.v["improvements"] ELSE JList(<<>>))
         IN  IF Raised(score) THEN score
             ELSE IF Raised(strengths) THEN strengths
             ELSE IF Raised(improvements) THEN improvements
             ELSE Ok([data EXCEPT !.v["score"] = JInt(ClampScore(score.val)),
                                  !.v["strengths"] = strengths.val,
                                  !.v["improvements"] = improvements.val])

\* ai_service.py 160-182
EvaluateAnswer(response) ==
    IF Raised(Post(response)) THEN Post(response)
    ELSE LET data == ExtractJson(response)
         IN  IF Raised(data) THEN data ELSE CheckEvaluation(data.val)

\* An exception that leaves the endpoint: FastAPI answers an HTTPException
\* with its status code, anything else with 500.
StatusOf(res) == IF res.exc = "HTTPException" THEN res.status ELSE ServerError500
DetailOf(res) == IF res.exc = "HTTPException" THEN res.detail ELSE "Internal Server Error"

\* the evaluation a request holds before evaluate_answer has returned
NoEvaluation ==
    JObj([score |-> JInt(0), overall_feedback |-> JStr(<<>>),
          strengths |-> JList(<<>>), improvements |-> JList(<<>>)])

\* -------------------------------------------------------------------- users
\* security.py hash_password / verify_password: the bcrypt hash of a
\* password is not the password; verify recomputes it (the salt is part of
\* the hash and is left out here).
HashPassword(plain) == [scheme |-> "bcrypt", digest |-> <<"H", plain>>]
VerifyPassword(plain, hashed) == hashed = HashPassword(plain)

\* auth_service.py 73-78 with the column defaults of models/user.py
NewUser(email, name, hashed) ==
    [email |-> email, name |-> name, hashed_password |-> hashed,
     is_active |-> TRUE, is_verified |-> FALSE]

EmailOf(u) == <<u, "@example.com">>
PasswordOf(u) == <<u, "-secret">>

\* the accounts of the callers of the interview endpoints
RegisteredUsers ==
    [u \in Users |-> NewUser(EmailOf(u), u, HashPassword(PasswordOf(u)))]

\* ------------------------------------------------------------ store queries
QuestionsOf(sid) == {q \in DOMAIN questions : questions[q].session_id = sid}

\* db.query(InterviewQuestion).filter(session_id == sid,
\*                                    user_answer.isnot(None)).count()
\* autoflush=False: the request's own pending user_answer is not in the
\* database yet, so the query counts committed answers only.
AnsweredCount(sid) ==
    Cardinality({q \in QuestionsOf(sid) : questions[q].user_answer # NoAnswer})

\* db.query(QuestionFeedback).join(InterviewQuestion)
\*     .filter(InterviewQuestion.session_id == sid).all()
SessionFeedbackScores(sid) == SelectScores(feedback, QuestionsOf(sid))

FeedbackFor(q) == IF q \in DOMAIN feedback THEN feedback[q] ELSE <<>>

\* _get_session_for_user: filter(id == session_id, user_id == user_id).first()
\* mutant: the filter on user_id is missing
SessionOfAnyUser(sid, uid) == sid \in DOMAIN sessions
SessionForUser(sid, uid) ==
    sid \in DOMAIN sessions /\ sessions[sid].user_id = uid

\* filter(InterviewQuestion.id == question_id,
\*        InterviewQuestion.session_id == session_id).first()
\* mutant: the filter on session_id is missing
QuestionOfAnySession(qid, sid) == qid \in DOMAIN questions
QuestionInSession(qid, sid) ==
    qid \in DOMAIN questions /\ questions[qid].session_id = sid

\* the response body of a request that has not produced one
NoResult == <<>>

\* ------------------------------------------------------------ request state
IdleReq ==
    [pc |-> "idle", op |-> "none", user_id |-> "u1", sid |-> 0, qid |-> <<0, 0>>,
     answer |-> NoAnswer, count |-> 0, texts |-> <<>>, score |-> 0,
     is_last |-> FALSE, final_score |-> NullScore, status |-> 0,
     detail |-> "", ai_called |-> FALSE, overlap |-> FALSE, answered_after |-> 0,
     provided |-> 0, txn |-> "none", response |-> NoResponse,
     evaluation |-> NoEvaluation, now |-> FirstInstant, limit |-> 0,
     result |-> NoResult, email |-> <<>>, name |-> "", password |-> <<>>,
     headers |-> {}, stale |-> FALSE]

\* txn is the state of the request's database transaction: "none" when no
\* transaction is open, "read" when one was begun by a SELECT (autobegin),
\* "write" when it also holds flushed, uncommitted writes.

InFlight(r) == req[r].pc \notin {"idle", "done"}
\* a submit_answer that passed its checks and has not committed yet
Evaluating(r) == req[r].op = "submit" /\ InFlight(r)

\* An HTTPException (or any exception) leaves the endpoint: get_db rolls the
\* request's transaction back and closes it; nothing pending survives.
Fail(r, st, why) ==
    req' = [req EXCEPT ![r].pc = "done", ![r].status = st, ![r].detail = why,
                       ![r].txn = "none"]

\* uuid.uuid4(): an id that no committed row and no other request uses
PendingSid(s) == \E r \in Slots : req[r].op = "start" /\ req[r].pc # "idle" /\ req[r].sid = s
UsedSid(s) == s \in DOMAIN sessions \/ PendingSid(s)
FreshSid ==
    CHOOSE s \in 1..(Cardinality(DOMAIN sessions) + Cardinality(Slots) + 1) :
        ~UsedSid(s) /\ \A t \in 1..(s - 1) : UsedSid(t)

\* ------------------------------------------------------------ start_session
\* interview_service.py 46-54: build the InterviewSession, db.add, db.flush.
\* The INSERT is sent inside the request's open transaction: the row has an
\* id, and no other request can read it before commit.
\* mutant: db.commit() where the code has db.flush()
StartFlushCommits(r, uid, n) ==
    /\ req[r].pc = "idle"
    /\ req' = [req EXCEPT ![r] =
                 [IdleReq EXCEPT !.pc = "generate", !.op = "start", !.user_id = uid,
                                 !.sid = FreshSid, !.count = n]]
    /\ sessions' = sessions @@ (FreshSid :> [user_id |-> uid, question_count |-> n,
                                             final_score |-> NullScore,
                                             is_completed |-> "false",
                                             created_at |-> FirstInstant])
    /\ UNCHANGED <<users, questions, feedback>>

StartFlush(r, uid, n) ==
    /\ req[r].pc = "idle"
    /\ req' = [req EXCEPT ![r] =
                 [IdleReq EXCEPT !.pc = "generate", !.op = "start", !.user_id = uid,
                                 !.sid = FreshSid, !.count = n, !.txn = "write"]]
    /\ UNCHANGED <<users, sessions, questions, feedback>>

\* interview_service.py 57-61 with ai_service.py 116-125: the provider
\* answered with m question texts.
StartGenerateReturns(r, m) ==
    /\ req[r].pc = "generate" /\ req[r].op = "start"
    /\ IF QuestionsTooFew(ProviderList(m), req[r].count)
       THEN Fail(r, BadGateway502, "AI did not return the expected number of questions.")
       ELSE req' = [req EXCEPT ![r].pc = "commit", ![r].ai_called = TRUE,
                               ![r].provided = m,
                               ![r].texts = TruncateQuestions(ProviderList(m), req[r].count)]
    /\ UNCHANGED <<users, sessions, questions, feedback>>

\* ai_service.py 65-84, 109-116: the call to the provider failed
\* (non-success status 503, unparseable body 502, uncaught exception 500).
StartGenerateFails(r, st) ==
    /\ req[r].pc = "generate" /\ req[r].op = "start"
    /\ Fail(r, st, "AI failure")
    /\ UNCHANGED <<users, sessions, questions, feedback>>

\* interview_service.py 57-61 with ai_service.py 109-125: the provider
\* answered the question-generation call with response.
StartGenerate(r, response) ==
    /\ req[r].pc = "generate" /\ req[r].op = "start"
    /\ LET res == GenerateQuestions(response, req[r].count)
       IN  IF Raised(res)
           THEN req' = [req EXCEPT ![r].pc = "done", ![r].ai_called = TRUE,
                                   ![r].response = response, ![r].txn = "none",
                                   ![r].status = StatusOf(res),
                                   ![r].detail = DetailOf(res)]
           ELSE req' = [req EXCEPT ![r].pc = "commit", ![r].ai_called = TRUE,
                                   ![r].response = response,
                                   ![r].texts = Iterate(res.val)]
    /\ UNCHANGED <<users, sessions, questions, feedback>>

\* mutant: the last text gets no question
NewQuestionsButLast(sid, texts) ==
    [q \in {<<sid, i - 1>> : i \in 1..(Len(texts) - 1)} |->
        [session_id |-> sid, question_text |-> texts[q[2] + 1],
         order_index |-> q[2], user_answer |-> NoAnswer]]

\* interview_service.py 64-71: one InterviewQuestion per text, order_index
\* from enumerate().
NewQuestions(sid, texts) ==
    [q \in {<<sid, i - 1>> : i \in 1..Len(texts)} |->
        [session_id |-> sid, question_text |-> texts[q[2] + 1],
         order_index |-> q[2], user_answer |-> NoAnswer]]

\* models: final_score nullable, is_completed server_default 'false',
\* created_at server_default now(); the lifecycle runs take place within
\* one instant of the clock
NewSession(uid, n) ==
    [user_id |-> uid, question_count |-> n,
     final_score |-> NullScore, is_completed |-> "false",
     created_at |-> FirstInstant]

\* interview_service.py 64-75: add the questions, db.commit(): the session
\* row and all question rows become visible in one commit.  db.refresh and
\* the response read the rows back in a new transaction.
StartCommit(r) ==
    /\ req[r].pc = "commit" /\ req[r].op = "start"
    /\ sessions' = sessions @@ (req[r].sid :> NewSession(req[r].user_id, req[r].count))
    /\ questions' = questions @@ NewQuestions(req[r].sid, req[r].texts)
    /\ feedback' = feedback @@ [q \in DOMAIN NewQuestions(req[r].sid, req[r].texts) |-> <<>>]
    /\ req' = [req EXCEPT ![r].pc = "done", ![r].status = Created201,
                          ![r].txn = "read"]
    /\ UNCHANGED users

\* ------------------------------------------------------------ submit_answer
\* interview_service.py 93-109: ownership check, question lookup,
\* re-submission check, then question.user_answer = data.answer on the ORM
\* object (pending, not flushed).  The session row read here is immutable in
\* the columns used (user_id, question_count), so the two SELECTs are one step.
\* mutant: the re-submission check is missing
SubmitLookupNoResubmitCheck(r, sid, qid, uid, ans) ==
    /\ req[r].pc = "idle"
    /\ LET base == [IdleReq EXCEPT !.op = "submit", !.user_id = uid, !.sid = sid,
                                   !.qid = qid, !.answer = ans]
       IN  IF ~SessionForUser(sid, uid)
           THEN req' = [req EXCEPT ![r] = [base EXCEPT !.pc = "done",
                           !.status = NotFound404, !.detail = "Session not found."]]
           ELSE IF ~QuestionInSession(qid, sid)
           THEN req' = [req EXCEPT ![r] = [base EXCEPT !.pc = "done",
                           !.status = NotFound404, !.detail = "Question not found."]]
           ELSE req' = [o \in Slots |->
                           IF o = r
                           THEN [base EXCEPT !.pc = "evaluate", !.txn = "read",
                                             !.count = sessions[sid].question_count,
                                             !.overlap = \E x \in Slots \ {r} : Evaluating(x)]
                           ELSE IF Evaluating(o) THEN [req[o] EXCEPT !.overlap = TRUE]
                           ELSE req[o]]
    /\ UNCHANGED <<users, sessions, questions, feedback>>

\* mutant: a question is refused while one with a lower order_index is open
SubmitLookupInOrder(r, sid, qid, uid, ans) ==
    /\ req[r].pc = "idle"
    /\ LET base == [IdleReq EXCEPT !.op = "submit", !.user_id = uid, !.sid = sid,
                                   !.qid = qid, !.answer = ans]
       IN  IF ~SessionForUser(sid, uid)
           THEN req' = [req EXCEPT ![r] = [base EXCEPT !.pc = "done",
                           !.status = NotFound404, !.detail = "Session not found."]]
           ELSE IF ~QuestionInSession(qid, sid)
           THEN req' = [req EXCEPT ![r] = [base EXCEPT !.pc = "done",
                           !.status = NotFound404, !.detail = "Question not found."]]
           ELSE IF questions[qid].user_answer # NoAnswer
           THEN req' = [req EXCEPT ![r] = [base EXCEPT !.pc = "done",
                           !.status = BadRequest400,
                           !.detail = "This question has already been answered."]]
           ELSE IF \E q \in QuestionsOf(sid) :
                       /\ questions[q].order_index < questions[qid].order_index
                       /\ questions[q].user_answer = NoAnswer
           THEN req' = [req EXCEPT ![r] = [base EXCEPT !.pc = "done",
                           !.status = BadRequest400,
                           !.detail = "Answer the earlier questions first."]]
           ELSE req' = [o \in Slots |->
                           IF o = r
                           THEN [base EXCEPT !.pc = "evaluate", !.txn = "read",
                                             !.count = sessions[sid].question_count,
                                             !.overlap = \E x \in Slots \ {r} : Evaluating(x)]
                           ELSE IF Evaluating(o) THEN [req[o] EXCEPT !.overlap = TRUE]
                           ELSE req[o]]
    /\ UNCHANGED <<users, sessions, questions, feedback>>

SubmitLookup(r, sid, qid, uid, ans) ==
    /\ req[r].pc = "idle"
    /\ LET base == [IdleReq EXCEPT !.op = "submit", !.user_id = uid, !.sid = sid,
                                   !.qid = qid, !.answer = ans]
       IN  IF ~SessionForUser(sid, uid)
           THEN req' = [req EXCEPT ![r] = [base EXCEPT !.pc = "done",
                           !.status = NotFound404, !.detail = "Session not found."]]
           ELSE IF ~QuestionInSession(qid, sid)
           THEN req' = [req EXCEPT ![r] = [base EXCEPT !.pc = "done",
                           !.status = NotFound404, !.detail = "Question not found."]]
           ELSE IF questions[qid].user_answer # NoAnswer
           THEN req' = [req EXCEPT ![r] = [base EXCEPT !.pc = "done",
                           !.status = BadRequest400,
                           !.detail = "This question has already been answered."]]
           ELSE req' = [o \in Slots |->
                           IF o = r
                           THEN [base EXCEPT !.pc = "evaluate", !.txn = "read",
                                             !.count = sessions[sid].question_count,
                                             !.overlap = \E x \in Slots \ {r} : Evaluating(x)]
                           ELSE IF Evaluating(o) THEN [req[o] EXCEPT !.overlap = TRUE]
                           ELSE req[o]]
    /\ UNCHANGED <<users, sessions, questions, feedback>>

\* interview_service.py 112-117 with ai_service.py 169-182: the provider
\* answered with a complete evaluation whose score is raw.
SubmitEvaluateReturns(r, raw) ==
    /\ req[r].pc = "evaluate"
    /\ req' = [req EXCEPT ![r].pc = "count", ![r].ai_called = TRUE,
                          ![r].score = ClampScore(raw)]
    /\ UNCHANGED <<users, sessions, questions, feedback>>

\* The evaluation call raised: the request ends, get_db rolls back.
\* mutant: the answer is committed before the evaluation call
SubmitEvaluateFailsKeepsAnswer(r, st) ==
    /\ req[r].pc = "evaluate"
    /\ req' = [req EXCEPT ![r].pc = "done", ![r].ai_called = TRUE,
                          ![r].status = st, ![r].detail = "AI failure",
                          ![r].txn = "none"]
    /\ questions' = [questions EXCEPT ![req[r].qid].user_answer = req[r].answer]
    /\ UNCHANGED <<users, sessions, feedback>>

SubmitEvaluateFails(r, st) ==
    /\ req[r].pc = "evaluate"
    /\ req' = [req EXCEPT ![r].pc = "done", ![r].ai_called = TRUE,
                          ![r].status = st, ![r].detail = "AI failure",
                          ![r].txn = "none"]
    /\ UNCHANGED <<users, sessions, questions, feedback>>

\* interview_service.py 112-117 with ai_service.py 160-182: the provider
\* answered the evaluation call with response.
SubmitEvaluate(r, response) ==
    /\ req[r].pc = "evaluate"
    /\ LET res == EvaluateAnswer(response)
       IN  IF Raised(res)
           THEN req' = [req EXCEPT ![r].pc = "done", ![r].ai_called = TRUE,
                                   ![r].response = response, ![r].txn = "none",
                                   ![r].status = StatusOf(res),
                                   ![r].detail = DetailOf(res)]
           ELSE req' = [req EXCEPT ![r].pc = "count", ![r].ai_called = TRUE,
                                   ![r].response = response,
                                   ![r].evaluation = res.val,
                                   ![r].score = res.val.v["score"].v]
    /\ UNCHANGED <<users, sessions, questions, feedback>>

\* interview_service.py 120-136: db.add(feedback) (pending), then the COUNT
\* query and is_last = answered_count >= session.question_count.
SubmitCount(r) ==
    /\ req[r].pc = "count"
    /\ LET is_last == AnsweredCount(req[r].sid) >= req[r].count
       IN  req' = [req EXCEPT ![r].is_last = is_last,
                              ![r].pc = IF is_last THEN "scores" ELSE "commit"]
    /\ UNCHANGED <<users, sessions, questions, feedback>>

\* interview_service.py 139-149: the feedback rows of the session in the
\* database plus the score of this request; final_score = sum / len.
SubmitScores(r) ==
    /\ req[r].pc = "scores"
    /\ LET all_scores == SessionFeedbackScores(req[r].sid) \o <<req[r].score>>
       IN  req' = [req EXCEPT ![r].pc = "commit",
                              ![r].final_score =
                                  [sum |-> SumSeq(all_scores), len |-> Len(all_scores)]]
    /\ UNCHANGED <<users, sessions, questions, feedback>>

\* alembic ef572e2f6aff 101: unique index on question_feedback.question_id
\* mutant: the index on question_id is not unique
NoUniqueIndex(qid) == FALSE
FeedbackUniqueViolation(qid) == FeedbackFor(qid) # <<>>

\* interview_service.py 120-128: the QuestionFeedback row; evaluated is the
\* answer text that the evaluation was made for.
NewFeedback(qid, score, evaluation, answer) ==
    [question_id |-> qid, score |-> score, evaluated |-> answer,
     overall_feedback |-> evaluation.v["overall_feedback"],
     strengths |-> evaluation.v["strengths"],
     improvements |-> evaluation.v["improvements"]]

\* interview_service.py 155-160 with schemas/interview.py 35-44:
\* FeedbackResponse.model_validate(feedback) raises a ValidationError
\* unless overall_feedback is a str and both lists are lists of str.
ValidFeedbackResponse(evaluation) ==
    /\ evaluation.v["overall_feedback"].t = "str"
    /\ IsListOfStr(evaluation.v["strengths"])
    /\ IsListOfStr(evaluation.v["improvements"])

\* interview_service.py 151: db.commit() flushes the unit of work in one
\* transaction: UPDATE of the question's user_answer, UPDATE of the session
\* when is_last, INSERT of the feedback row.  An IntegrityError rolls all of
\* it back and the request fails.  After the commit db.refresh(feedback)
\* reads the row back in a new transaction and the response is validated.
\* mutant: db.add(feedback) is missing
\* mutant: the answer is written to every question of the session
SubmitCommitAnswersAll(r) ==
    /\ req[r].pc = "commit" /\ req[r].op = "submit"
    /\ IF FeedbackUniqueViolation(req[r].qid)
       THEN /\ Fail(r, ServerError500, "IntegrityError")
            /\ UNCHANGED <<users, sessions, questions, feedback>>
       ELSE /\ questions' = [q \in DOMAIN questions |->
                                IF questions[q].session_id = req[r].sid
                                THEN [questions[q] EXCEPT !.user_answer = req[r].answer]
                                ELSE questions[q]]
            /\ feedback' = [feedback EXCEPT ![req[r].qid] =
                              Append(@, NewFeedback(req[r].qid, req[r].score,
                                                    req[r].evaluation, req[r].answer))]
            /\ req' = [req EXCEPT ![r].pc = "done", ![r].txn = "read",
                                  ![r].status = OK200]
            /\ UNCHANGED <<users, sessions>>

SubmitCommitWithoutFeedback(r) ==
    /\ req[r].pc = "commit" /\ req[r].op = "submit"
    /\ questions' = [questions EXCEPT ![req[r].qid].user_answer = req[r].answer]
    /\ req' = [req EXCEPT ![r].pc = "done", ![r].status = OK200]
    /\ UNCHANGED <<users, sessions, feedback>>

SubmitCommit(r) ==
    /\ req[r].pc = "commit" /\ req[r].op = "submit"
    /\ IF FeedbackUniqueViolation(req[r].qid)
       THEN /\ Fail(r, ServerError500, "IntegrityError")
            /\ UNCHANGED <<users, sessions, questions, feedback>>
       ELSE /\ questions' = [questions EXCEPT ![req[r].qid].user_answer = req[r].answer]
            /\ feedback' = [feedback EXCEPT ![req[r].qid] =
                              Append(@, NewFeedback(req[r].qid, req[r].score,
                                                    req[r].evaluation, req[r].answer))]
            /\ sessions' = IF req[r].is_last
                           THEN [sessions EXCEPT ![req[r].sid].final_score = req[r].final_score,
                                                 ![req[r].sid].is_completed = "true"]
                           ELSE sessions
            /\ req' = [req EXCEPT ![r].pc = "done", ![r].txn = "read",
                          ![r].status =
                              IF ValidFeedbackResponse(req[r].evaluation)
                              THEN OK200 ELSE ServerError500,
                          ![r].detail =
                              IF ValidFeedbackResponse(req[r].evaluation)
                              THEN "" ELSE "Internal Server Error",
                          ![r].answered_after =
                              Cardinality({q \in QuestionsOf(req[r].sid) :
                                              questions'[q].user_answer # NoAnswer})]
            /\ UNCHANGED users

\* The response has been sent; get_db closes the session.
\* mutant: the finally block with db.close() is missing
RespondLeavesOpen(r) ==
    /\ req[r].pc = "done"
    /\ UNCHANGED vars

Respond(r) ==
    /\ req[r].pc = "done"
    /\ req' = [req EXCEPT ![r] = IdleReq]
    /\ UNCHANGED <<users, sessions, questions, feedback>>

\* ---------------------------------------------------------------- analytics
\* A float is kept as the exact fraction sum/len (final_score = sum(all
\* scores) / len(all scores), interview_service.py 147).
Float(n) == [sum |-> n, len |-> 1]
FloatEq(a, b) == a.sum * b.len = b.sum * a.len
FloatLess(a, b) == a.sum * b.len < b.sum * a.len
FloatAdd(a, b) == [sum |-> a.sum * b.len + b.sum * a.len, len |-> a.len * b.len]

\* Python `x or 0`: None and 0.0 are falsy
OrZero(x) == IF x = NullScore \/ x.sum = 0 THEN Float(0) ELSE x

\* round(x, 1) for x >= 0: the nearest multiple of 0.1, a tie to the even one
Round1(x) ==
    LET n == 10 * x.sum
        quot == n \div x.len
        rest == n % x.len
    IN  [sum |-> IF 2 * rest > x.len \/ (2 * rest = x.len /\ quot % 2 = 1)
                 THEN quot + 1 ELSE quot,
         len |-> 10]

\* the rows of S whose final_score is not NULL (SQL aggregates skip NULLs)
NonNull(S) == {s \in S : sessions[s].final_score # NullScore}

RECURSIVE SumScores(_)
SumScores(S) ==
    IF S = {} THEN Float(0)
    ELSE LET s == CHOOSE x \in S : TRUE
         IN  FloatAdd(sessions[s].final_score, SumScores(S \ {s}))

\* func.avg(InterviewSession.final_score): NULL when no row has a value
SqlAvg(S) ==
    IF NonNull(S) = {} THEN NullScore
    ELSE [sum |-> SumScores(NonNull(S)).sum,
          len |-> SumScores(NonNull(S)).len * Cardinality(NonNull(S))]

\* func.max(InterviewSession.final_score)
SqlMax(S) ==
    IF NonNull(S) = {} THEN NullScore
    ELSE sessions[CHOOSE s \in NonNull(S) :
                     \A o \in NonNull(S) :
                        ~FloatLess(sessions[s].final_score, sessions[o].final_score)
                 ].final_score

\* interview_service.py 170-174: the filter of get_analytics
\* mutant: only the filter on user_id is there
SessionsOfUser(uid) == {s \in DOMAIN sessions : sessions[s].user_id = uid}
\* mutant: the filter on user_id is missing
ScoredSessionsOfAnyUser(uid) ==
    {s \in DOMAIN sessions :
        sessions[s].is_completed = "true" /\ sessions[s].final_score # NullScore}
ScoredSessions(uid) ==
    {s \in DOMAIN sessions :
        /\ sessions[s].user_id = uid
        /\ sessions[s].is_completed = "true"
        /\ sessions[s].final_score # NullScore}

\* datetime.now(timezone.utc).date() and the start of a UTC day
Date(t) == t \div TicksPerDay
DayStart(d) == d * TicksPerDay

\* interview_service.py 212-217: the filter of one day of the trend
SessionsOfDay(uid, d) ==
    {s \in DOMAIN sessions :
        /\ sessions[s].user_id = uid
        /\ sessions[s].is_completed = "true"
        /\ sessions[s].created_at >= DayStart(d)
        /\ sessions[s].created_at < DayStart(d + 1)}

\* _get_weekly_scores: entry k is the day DaysInTrend - k days before today
\* mutant: today comes first
WeeklyScoresNewestFirst(uid, now) ==
    [k \in 1..DaysInTrend |->
        Round1(OrZero(SqlAvg(SessionsOfDay(uid, Date(now) - (k - 1)))))]
GetWeeklyScores(uid, now) ==
    [k \in 1..DaysInTrend |->
        Round1(OrZero(SqlAvg(SessionsOfDay(uid, Date(now) - (DaysInTrend - k)))))]

\* get_analytics, interview_service.py 164-200
AnalyticsOf(uid, now) ==
    IF Cardinality(ScoredSessions(uid)) = 0
    THEN [total_sessions |-> 0, average_score |-> Float(0), best_score |-> Float(0),
          weekly_scores |-> [k \in 1..DaysInTrend |-> Float(0)]]
    ELSE [total_sessions |-> Cardinality(ScoredSessions(uid)),
          average_score |-> Round1(OrZero(SqlAvg(ScoredSessions(uid)))),
          best_score |-> Round1(OrZero(SqlMax(ScoredSessions(uid)))),
          weekly_scores |-> GetWeeklyScores(uid, now)]

\* GET /analytics at the instant now of the clock; no row was created
\* after now.  The handler runs SELECTs only.
GetAnalytics(r, uid, now) ==
    /\ req[r].pc = "idle"
    /\ \A s \in DOMAIN sessions : sessions[s].created_at <= now
    /\ req' = [req EXCEPT ![r] =
                 [IdleReq EXCEPT !.pc = "done", !.op = "analytics", !.user_id = uid,
                                 !.now = now, !.status = OK200, !.txn = "read",
                                 !.result = AnalyticsOf(uid, now)]]
    /\ UNCHANGED <<users, sessions, questions, feedback>>

\* interview_service.py 227-231: the filter of get_history
\* mutant: the filter on user_id is missing
CompletedSessionsOfAnyUser(uid) ==
    {s \in DOMAIN sessions : sessions[s].is_completed = "true"}
HistorySessions(uid) ==
    {s \in DOMAIN sessions :
        sessions[s].user_id = uid /\ sessions[s].is_completed = "true"}

\* order_by(created_at.desc()): the database may return rows of equal
\* created_at in any order
\* mutant: order_by(created_at.asc())
OldestFirst(S) ==
    {o \in [1..Cardinality(S) -> S] :
        \A i, j \in 1..Cardinality(S) :
            i < j => /\ o[i] # o[j]
                     /\ sessions[o[i]].created_at <= sessions[o[j]].created_at}
NewestFirst(S) ==
    {o \in [1..Cardinality(S) -> S] :
        \A i, j \in 1..Cardinality(S) :
            i < j => /\ o[i] # o[j]
                     /\ sessions[o[i]].created_at >= sessions[o[j]].created_at}

\* interview_service.py 236-246: SessionHistoryItem of a row
HistoryItem(s) ==
    [id |-> s, question_count |-> sessions[s].question_count,
     score |-> OrZero(sessions[s].final_score),
     completed_at |-> sessions[s].created_at]

\* .limit(limit).all() for limit >= 0
HistoryOf(rows, limit) == [k \in 1..Min(limit, Len(rows)) |-> HistoryItem(rows[k])]

\* GET /history?limit=: SELECTs only
\* mutant: the rows that were returned are deleted
GetHistoryAndForget(r, uid, limit) ==
    /\ req[r].pc = "idle"
    /\ \E rows \in NewestFirst(HistorySessions(uid)) :
          req' = [req EXCEPT ![r] =
                    [IdleReq EXCEPT !.pc = "done", !.op = "history", !.user_id = uid,
                                    !.limit = limit, !.status = OK200, !.txn = "read",
                                    !.result = HistoryOf(rows, limit)]]
    /\ sessions' = [s \in DOMAIN sessions \ HistorySessions(uid) |-> sessions[s]]
    /\ UNCHANGED <<users, questions, feedback>>

GetHistory(r, uid, limit) ==
    /\ req[r].pc = "idle"
    /\ \E rows \in NewestFirst(HistorySessions(uid)) :
          req' = [req EXCEPT ![r] =
                    [IdleReq EXCEPT !.pc = "done", !.op = "history", !.user_id = uid,
                                    !.limit = limit, !.status = OK200, !.txn = "read",
                                    !.result = HistoryOf(rows, limit)]]
    /\ UNCHANGED <<users, sessions, questions, feedback>>

\* --------------------------------------------------------- register, login
\* security.py create_access_token: jwt.encode of the payload with
\* "sub": str(subject), signed with SECRET_KEY
CreateAccessToken(subject) ==
    [sub |-> subject, alg |-> "HS256", signed_with |-> "SECRET_KEY"]

\* schemas/auth.py: UserResponse.model_validate(user) inside TokenResponse
TokenResponse(uid, row) ==
    [access_token |-> CreateAccessToken(uid), token_type |-> "bearer",
     user |-> [id |-> uid, email |-> row.email, name |-> row.name,
               is_active |-> row.is_active]]

\* db.query(User).filter(User.email == email).first(): the email column has
\* a unique index (alembic ef572e2f6aff 58), so at most one row matches
UsersWithEmail(email) == {u \in DOMAIN users : users[u].email = email}

\* uuid.uuid4(): an id that no user row and no other request uses
UserIdPool == <<"u1", "u2", "u3", "u4">>
PendingUser(u) ==
    \E r \in Slots : req[r].op = "register" /\ req[r].pc = "commit" /\ req[r].user_id = u
FreshUserId ==
    UserIdPool[CHOOSE i \in DOMAIN UserIdPool :
                  /\ UserIdPool[i] \notin DOMAIN users /\ ~PendingUser(UserIdPool[i])
                  /\ \A j \in 1..(i - 1) :
                        UserIdPool[j] \in DOMAIN users \/ PendingUser(UserIdPool[j])]
NumUsers ==
    Cardinality({i \in DOMAIN UserIdPool :
                    UserIdPool[i] \in DOMAIN users \/ PendingUser(UserIdPool[i])})

\* auth_service.py 61-77: the duplicate check, then the password is hashed
\* and the User object is built.
\* mutant: the duplicate check is missing
RegisterLookupNoDuplicateCheck(r, email, name, password) ==
    /\ req[r].pc = "idle"
    /\ req' = [req EXCEPT ![r] =
                 [IdleReq EXCEPT !.op = "register", !.email = email,
                                 !.password = password, !.name = name,
                                 !.pc = "commit", !.txn = "read",
                                 !.user_id = FreshUserId]]
    /\ UNCHANGED <<users, sessions, questions, feedback>>

RegisterLookup(r, email, name, password) ==
    /\ req[r].pc = "idle"
    /\ LET base == [IdleReq EXCEPT !.op = "register", !.email = email,
                                   !.password = password, !.name = name]
       IN  IF UsersWithEmail(email) # {}
           THEN req' = [req EXCEPT ![r] =
                          [base EXCEPT !.pc = "done", !.status = BadRequest400,
                              !.detail = "An account with this email already exists."]]
           ELSE req' = [req EXCEPT ![r] =
                          [base EXCEPT !.pc = "commit", !.txn = "read",
                                       !.user_id = FreshUserId]]
    /\ UNCHANGED <<users, sessions, questions, feedback>>

\* auth_service.py 78-89: db.add(user), db.commit(), refresh, token.  The
\* INSERT fails on the unique index of users.email when another request
\* committed the same email since the duplicate check.
\* mutant: users.email has no unique index
RegisterCommitNoUniqueIndex(r) ==
    /\ req[r].pc = "commit" /\ req[r].op = "register"
    /\ users' = users @@
           (req[r].user_id :> NewUser(req[r].email, req[r].name,
                                      HashPassword(req[r].password)))
    /\ req' = [req EXCEPT ![r].pc = "done", ![r].txn = "read",
                          ![r].status = Created201,
                          ![r].result =
                              TokenResponse(req[r].user_id, users'[req[r].user_id])]
    /\ UNCHANGED <<sessions, questions, feedback>>
RegisterCommit(r) ==
    /\ req[r].pc = "commit" /\ req[r].op = "register"
    /\ IF UsersWithEmail(req[r].email) # {}
       THEN /\ Fail(r, ServerError500, "IntegrityError")
            /\ UNCHANGED <<users, sessions, questions, feedback>>
       ELSE /\ users' = users @@
                    (req[r].user_id :> NewUser(req[r].email, req[r].name,
                                               HashPassword(req[r].password)))
            /\ req' = [req EXCEPT ![r].pc = "done", ![r].txn = "read",
                                  ![r].status = Created201,
                                  ![r].result =
                                      TokenResponse(req[r].user_id,
                                                    users'[req[r].user_id])]
            /\ UNCHANGED <<sessions, questions, feedback>>

\* auth_service.py 108-112: the one HTTPException of both failed cases
InvalidCredentials ==
    [status |-> Unauthorized401, detail |-> "Invalid email or password.",
     headers |-> {<<"WWW-Authenticate", "Bearer">>}]
\* mutant: an unknown email has an answer of its own
UnknownEmail ==
    [status |-> NotFound404, detail |-> "User not found.", headers |-> {}]
NoSuchUser == InvalidCredentials

\* mutant: the account status is checked before the password
LoginStatusFirst(r, email, password) ==
    /\ req[r].pc = "idle"
    /\ LET base == [IdleReq EXCEPT !.op = "login", !.email = email,
                                   !.password = password, !.pc = "done"]
           found == UsersWithEmail(email)
           uid == CHOOSE u \in found : TRUE
       IN  IF found = {}
           THEN req' = [req EXCEPT ![r] =
                          [base EXCEPT !.status = NoSuchUser.status,
                                       !.detail = NoSuchUser.detail,
                                       !.headers = NoSuchUser.headers]]
           ELSE IF ~users[uid].is_active
           THEN req' = [req EXCEPT ![r] =
                          [base EXCEPT !.status = Forbidden403,
                              !.detail = "Your account has been disabled. Please contact support."]]
           ELSE IF ~VerifyPassword(password, users[uid].hashed_password)
           THEN req' = [req EXCEPT ![r] =
                          [base EXCEPT !.status = InvalidCredentials.status,
                                       !.detail = InvalidCredentials.detail,
                                       !.headers = InvalidCredentials.headers]]
           ELSE req' = [req EXCEPT ![r] =
                          [base EXCEPT !.status = OK200, !.txn = "read", !.user_id = uid,
                                       !.result = TokenResponse(uid, users[uid])]]
    /\ UNCHANGED <<users, sessions, questions, feedback>>

\* auth_service.py 115-135: login reads the user row and writes nothing
Login(r, email, password) ==
    /\ req[r].pc = "idle"
    /\ LET base == [IdleReq EXCEPT !.op = "login", !.email = email,
                                   !.password = password, !.pc = "done"]
           found == UsersWithEmail(email)
           uid == CHOOSE u \in found : TRUE
       IN  IF found = {}
           THEN req' = [req EXCEPT ![r] =
                          [base EXCEPT !.status = NoSuchUser.status,
                                       !.detail = NoSuchUser.detail,
                                       !.headers = NoSuchUser.headers]]
           ELSE IF ~VerifyPassword(password, users[uid].hashed_password)
           THEN req' = [req EXCEPT ![r] =
                          [base EXCEPT !.status = InvalidCredentials.status,
                                       !.detail = InvalidCredentials.detail,
                                       !.headers = InvalidCredentials.headers]]
           ELSE IF ~users[uid].is_active
           THEN req' = [req EXCEPT ![r] =
                          [base EXCEPT !.status = Forbidden403,
                              !.detail = "Your account has been disabled. Please contact support."]]
           ELSE req' = [req EXCEPT ![r] =
                          [base EXCEPT !.status = OK200, !.txn = "read", !.user_id = uid,
                                       !.result = TokenResponse(uid, users[uid])]]
    /\ UNCHANGED <<users, sessions, questions, feedback>>

\* ------------------------------------------------------------ specifications
EmptyFn == [x \in {} |-> 0]

InitStore ==
    /\ users = RegisteredUsers
    /\ sessions = EmptyFn
    /\ questions = EmptyFn
    /\ feedback = EmptyFn

Init == InitStore /\ req = [r \in 1..NumSlots |-> IdleReq]

\* the statuses a failed gateway call ends the request with: 502 and 503
\* from _extract_json, 500 from an exception that the gateway does not catch
AIFailures == {BadGateway502, Unavailable503, ServerError500}
SessionIds == 1..(MaxSessions + 1)
\* the ids questions of the sessions can have, and one that no question has
QuestionIds == {<<s, i>> : s \in 1..MaxSessions, i \in 0..(QCountBound - 1)}
                  \cup {<<MaxSessions + 1, 0>>}
NumSessions == Cardinality({s \in SessionIds : UsedSid(s)})

NumStartSessions == Cardinality({s \in 1..(MaxStartSessions + 1) : UsedSid(s)})

Next ==
    \/ \E r \in Slots, u \in Users, n \in MinQuestions..QCountBound :
          NumSessions < MaxSessions /\ StartFlush(r, u, n)
    \/ \E r \in Slots, m \in 0..(QCountBound + 1) : StartGenerateReturns(r, m)
    \/ \E r \in Slots, st \in AIFailures : StartGenerateFails(r, st)
    \/ \E r \in Slots : StartCommit(r)
    \/ \E r \in Slots, sid \in SessionIds, qid \in QuestionIds, u \in Users :
          SubmitLookup(r, sid, qid, u, AnswerOf(r))
    \/ \E r \in Slots, raw \in RawScores : SubmitEvaluateReturns(r, raw)
    \/ \E r \in Slots, st \in AIFailures : SubmitEvaluateFails(r, st)
    \/ \E r \in Slots : SubmitCount(r)
    \/ \E r \in Slots : SubmitScores(r)
    \/ \E r \in Slots : SubmitCommit(r)
    \/ \E r \in Slots : Respond(r)

\* any interleaving of up to NumSlots concurrent requests
Spec == Init /\ [][Next]_vars

\* start_session alone, over the whole range of question_count
NextStart ==
    \/ \E r \in Slots, u \in Users, n \in MinQuestions..MaxQuestions :
          NumStartSessions < MaxStartSessions /\ StartFlush(r, u, n)
    \/ \E r \in Slots, m \in 0..(MaxQuestions + 1) : StartGenerateReturns(r, m)
    \/ \E r \in Slots, st \in AIFailures : StartGenerateFails(r, st)
    \/ \E r \in Slots : StartCommit(r)
    \/ \E r \in Slots : Respond(r)

\* one start_session request at a time
InitStart == InitStore /\ req = [r \in 1..1 |-> IdleReq]

SpecStart == InitStart /\ [][NextStart]_vars

\* ----------------------------------------------------- provider responses
\* a list of m strings; string k is the k-th the provider wrote
StringList(m) == JList([k \in 1..m |-> JStr(<<10 + k>>)])
\* a str of n letters
Letters(n) == JStr([k \in 1..n |-> 10 + k])

\* an HTTP response with status code and body
Http(code, body) ==
    [connect |-> TRUE, silence |-> 0, status_code |-> code, content |-> body]
\* the chat-completion body whose first choice holds the message text
ChatCompletion(text) ==
    JText(JObj([choices |-> JList(<<JObj([message |-> JObj([content |-> text])])>>)]))
\* a 200 response whose message content is the JSON document doc
Completion(doc) == Http(OK200, ChatCompletion(JText(doc)))

\* the provider cannot be reached, stays silent, or answers with an error
Unreachable ==
    <<[connect |-> FALSE, silence |-> 0, status_code |-> 0, content |-> NotJson],
      [connect |-> TRUE, silence |-> TimeoutSeconds + 1, status_code |-> OK200,
       content |-> ChatCompletion(JText(JObj([questions |-> StringList(MinQuestions)])))],
      Http(ServerError500, NotJson),
      Http(429, JText(JObj([error |-> JStr(<<>>)])))>>

\* 200 responses that do not hold a JSON object in the first choice
Malformed ==
    <<Http(OK200, NotJson),
      Http(OK200, JText(JObj([error |-> JStr(<<>>)]))),
      Http(OK200, JText(JObj([choices |-> JList(<<>>)]))),
      Http(OK200, JText(JObj([choices |-> JList(<<JObj([index |-> JInt(0)])>>)]))),
      Http(OK200, ChatCompletion(NotJson)),
      Completion(StringList(MinQuestions)),
      Completion(JInt(7))>>

\* what the provider may answer to a question-generation call
QuestionResponses ==
    Unreachable \o Malformed
    \o [i \in 1..(QCountBound + 2) |-> Completion(JObj([questions |-> StringList(i - 1)]))]
    \o <<Completion(JObj([items |-> StringList(QCountBound)])),
          Completion(JObj([questions |-> JNull])),
          Completion(JObj([questions |-> Letters(QCountBound + 1)])),
          Completion(JObj([questions |-> JInt(QCountBound)]))>>

Evaluation(score, text, strengths, improvements) ==
    [score |-> score, overall_feedback |-> text,
     strengths |-> strengths, improvements |-> improvements]
\* the members of an object without the key k
Without(members, k) == [x \in DOMAIN members \ {k} |-> members[x]]

GoodEvaluation == Evaluation(JInt(40), Letters(2), StringList(2), StringList(1))

\* what the provider may answer to an evaluation call
EvaluationResponses ==
    Unreachable \o Malformed
    \o <<Completion(JObj(GoodEvaluation)),
          Completion(JObj(Evaluation(JInt(150), Letters(2),
                                     StringList(MaxListItems + 3), StringList(MaxListItems)))),
          Completion(JObj(Evaluation(JInt(0 - 5), Letters(2),
                                     StringList(0), StringList(MaxListItems + 1)))),
          Completion(JObj(Without(GoodEvaluation, "score"))),
          Completion(JObj(Without(GoodEvaluation, "overall_feedback"))),
          Completion(JObj(Without(GoodEvaluation, "strengths"))),
          Completion(JObj(Without(GoodEvaluation, "improvements"))),
          Completion(JObj(EmptyFn)),
          Completion(JObj(Evaluation(Letters(3), Letters(2), StringList(2), StringList(1)))),
          Completion(JObj(Evaluation(JStr(<<8, 5>>), Letters(2), StringList(2), StringList(1)))),
          Completion(JObj(Evaluation(JNull, Letters(2), StringList(2), StringList(1)))),
          Completion(JObj(Evaluation(JInt(40), Letters(2),
                                     Letters(MaxListItems + 2), StringList(1)))),
          Completion(JObj(Evaluation(JInt(40), Letters(2),
                                     JList(<<JInt(1), JInt(2)>>), StringList(1)))),
          Completion(JObj(Evaluation(JInt(40), Letters(2), StringList(2), JInt(3))))>>

\* The gateway under every kind of provider response, one request at a
\* time.  With one request at a time the COUNT query never reaches
\* question_count (NeverLastAlone), so the is_last branch is not taken.
NextGateway ==
    \/ \E r \in Slots, u \in Users, n \in MinQuestions..QCountBound :
          NumSessions < MaxSessions /\ StartFlush(r, u, n)
    \/ \E r \in Slots, i \in DOMAIN QuestionResponses :
          StartGenerate(r, QuestionResponses[i])
    \/ \E r \in Slots : StartCommit(r)
    \/ \E r \in Slots, sid \in SessionIds, qid \in QuestionIds, u \in Users :
          SubmitLookup(r, sid, qid, u, AnswerOf(r))
    \/ \E r \in Slots, i \in DOMAIN EvaluationResponses :
          SubmitEvaluate(r, EvaluationResponses[i])
    \/ \E r \in Slots : SubmitCount(r)
    \/ \E r \in Slots : SubmitCommit(r)
    \/ \E r \in Slots : Respond(r)

SpecGateway == InitStart /\ [][NextGateway]_vars

\* ------------------------------------------------------ sessions side by side
\* Up to MaxTwinSessions sessions of QCountBound questions; request slot r
\* answers session r only, one submission at a time, in any order of the
\* questions.  The evaluation of a question depends on the question alone.
ScoreOfQuestion(qid) == 30 * (qid[2] + 1)

TwinSessionIds == 1..(MaxTwinSessions + 1)
TwinQuestionIds ==
    {<<s, i>> : s \in 1..MaxTwinSessions, i \in 0..(QCountBound - 1)}
        \cup {<<MaxTwinSessions + 1, 0>>}
NumTwinSessions == Cardinality({s \in TwinSessionIds : UsedSid(s)})

NextTwin ==
    \/ \E r \in Slots, u \in Users :
          NumTwinSessions < MaxTwinSessions /\ StartFlush(r, u, QCountBound)
    \/ \E r \in Slots : StartGenerateReturns(r, QCountBound)
    \/ \E r \in Slots : StartCommit(r)
    \/ \E r \in Slots, qid \in TwinQuestionIds, u \in Users :
          SubmitLookup(r, r, qid, u, AnswerOf(r))
    \/ \E r \in Slots : SubmitEvaluateReturns(r, ScoreOfQuestion(req[r].qid))
    \/ \E r \in Slots : SubmitCount(r)
    \/ \E r \in Slots : SubmitCommit(r)
    \/ \E r \in Slots : Respond(r)

SpecTwin == Init /\ [][NextTwin]_vars

\* ---------------------------------------------------------------- progress
\* The endpoints are plain def functions: each request runs on a worker
\* thread of its own and none waits for another.  Every step of a handler
\* ends: a database statement returns or raises, the call to the provider
\* returns or raises within TimeoutSeconds, and get_db's finally block runs
\* when the handler has returned or raised.  So a request that can take a
\* step takes one.
\* the inputs of the runs that are followed to their end: the provider
\* sends too few questions or enough, one score, or fails with 503
FairProvided == {QCountBound - 1, QCountBound}
FairScores == {40}
FairFailures == {Unavailable503}

RequestStep(r) ==
    \/ \E m \in FairProvided : StartGenerateReturns(r, m)
    \/ \E st \in FairFailures : StartGenerateFails(r, st)
    \/ StartCommit(r)
    \/ \E raw \in FairScores : SubmitEvaluateReturns(r, raw)
    \/ \E st \in FairFailures : SubmitEvaluateFails(r, st)
    \/ SubmitCount(r)
    \/ SubmitScores(r)
    \/ SubmitCommit(r)
    \/ Respond(r)

NextFair ==
    \/ \E r \in Slots, n \in MinQuestions..QCountBound :
          NumSessions < MaxSessions /\ StartFlush(r, "u1", n)
    \/ \E r \in Slots, sid \in SessionIds, qid \in QuestionIds, u \in Users :
          SubmitLookup(r, sid, qid, u, AnswerOf(r))
    \/ \E r \in Slots : RequestStep(r)

SpecFair ==
    Init /\ [][NextFair]_vars /\ \A r \in 1..NumSlots : WF_vars(RequestStep(r))

\* ------------------------------------------------- analytics and history
\* get_analytics and get_history are functions of the store and the clock.
\* They are run on every store of MaxStoredSessions sessions of the kinds
\* below: still open, completed with a final_score that was computed from
\* the scores of its questions, and completed with a NULL final_score.
CreatedTimes == {FirstInstant, FirstInstant + 1, FirstInstant + DaysInTrend * TicksPerDay}
NowTimes ==
    {FirstInstant + 1, FirstInstant + (DaysInTrend - 1) * TicksPerDay + 1,
     FirstInstant + DaysInTrend * TicksPerDay,
     FirstInstant + (DaysInTrend + 1) * TicksPerDay + 1}
SessionKinds == {"open", "unscored", "low", "high"}

\* the scores of the questions of a completed session
ScoresOf(kind) ==
    IF kind = "low" THEN [i \in 1..MinQuestions |-> 40]
    ELSE [i \in 1..MinQuestions |-> IF i = MinQuestions THEN 0 ELSE 100]

StoredSession(uid, t, kind) ==
    [NewSession(uid, MinQuestions) EXCEPT
        !.created_at = t,
        !.is_completed = IF kind = "open" THEN "false" ELSE "true",
        !.final_score = IF kind \in {"open", "unscored"} THEN NullScore
                        ELSE [sum |-> SumSeq(ScoresOf(kind)), len |-> MinQuestions]]

StoredSessions ==
    {StoredSession(u, t, kind) : u \in Users, t \in CreatedTimes, kind \in SessionKinds}

\* the questions and feedback rows of the stored sessions
StoredQuestion(q, row) ==
    [NewQuestions(q[1], ProviderList(row.question_count))[q] EXCEPT
        !.user_answer = IF row.is_completed = "true" THEN AnswerOf(1) ELSE NoAnswer]
StoredFeedback(q, row) ==
    IF row.is_completed = "false" THEN <<>>
    ELSE <<NewFeedback(q, IF row.final_score = NullScore THEN 0
                          ELSE ScoresOf(IF row.final_score.sum = SumSeq(ScoresOf("low"))
                                        THEN "low" ELSE "high")[q[2] + 1],
                       NoEvaluation, AnswerOf(1))>>

InitAnalytics ==
    /\ users = RegisteredUsers
    /\ sessions \in [1..MaxStoredSessions -> StoredSessions]
    /\ questions = [q \in {<<s, i>> : s \in 1..MaxStoredSessions,
                                      i \in 0..(MinQuestions - 1)} |->
                       StoredQuestion(q, sessions[q[1]])]
    /\ feedback = [q \in DOMAIN questions |-> StoredFeedback(q, sessions[q[1]])]
    /\ req = [r \in 1..1 |-> IdleReq]

NextAnalytics ==
    \/ \E r \in Slots, u \in Users, now \in NowTimes : GetAnalytics(r, u, now)
    \/ \E r \in Slots, u \in Users, limit \in 0..(MaxStoredSessions + 1) :
          GetHistory(r, u, limit)
    \/ \E r \in Slots : Respond(r)

SpecAnalytics == InitAnalytics /\ [][NextAnalytics]_vars

\* ------------------------------------------------------ reads of one user
\* Two read requests at a time.  Between them the sessions of the other
\* users (with their questions and feedback) change in any way, as the
\* writes of those users may have left them; the sessions of the user
\* whose responses are waiting stay as they are.  stale marks a response
\* that was computed before such a change.
IsolationTimes == {FirstInstant, FirstInstant + 1}
IsolationSessions ==
    {StoredSession(u, t, kind) :
        u \in Users, t \in IsolationTimes, kind \in {"open", "low", "high"}}

QuestionsOfStore(tbl) ==
    [q \in {<<s, i>> : s \in DOMAIN tbl, i \in 0..(MinQuestions - 1)} |->
        StoredQuestion(q, tbl[q[1]])]
FeedbackOfStore(tbl) ==
    [q \in DOMAIN QuestionsOfStore(tbl) |-> StoredFeedback(q, tbl[q[1]])]

InitIsolation ==
    /\ users = RegisteredUsers
    /\ sessions \in [1..MaxStoredSessions -> IsolationSessions]
    /\ questions = QuestionsOfStore(sessions)
    /\ feedback = FeedbackOfStore(sessions)
    /\ req = [r \in 1..NumSlots |-> IdleReq]

\* a session that uid does not own is replaced by another such session
OthersChange(uid) ==
    /\ \A r \in Slots : req[r].pc = "done" => req[r].user_id = uid
    /\ \E s \in DOMAIN sessions, row \in IsolationSessions :
          /\ sessions[s].user_id # uid /\ row.user_id # uid /\ row # sessions[s]
          /\ sessions' = [sessions EXCEPT ![s] = row]
          /\ questions' = QuestionsOfStore(sessions')
          /\ feedback' = FeedbackOfStore(sessions')
    /\ req' = [r \in Slots |->
                 IF req[r].pc = "done" THEN [req[r] EXCEPT !.stale = TRUE] ELSE req[r]]
    /\ UNCHANGED users

NextIsolation ==
    \/ \E r \in Slots, u \in Users : GetAnalytics(r, u, FirstInstant + 1)
    \/ \E r \in Slots, u \in Users, limit \in {1, MaxStoredSessions} :
          GetHistory(r, u, limit)
    \/ \E u \in Users : OthersChange(u)
    \/ \E r \in Slots : Respond(r)

SpecIsolation == InitIsolation /\ [][NextIsolation]_vars

\* ------------------------------------------------------- accounts
\* register and login on an empty users table, NumSlots requests at a time
Emails == {EmailOf(u) : u \in Users}
Passwords == {PasswordOf(u) : u \in Users}

InitAuth ==
    /\ users = EmptyFn
    /\ sessions = EmptyFn /\ questions = EmptyFn /\ feedback = EmptyFn
    /\ req = [r \in 1..NumSlots |-> IdleReq]

NextAuth ==
    \/ \E r \in Slots, email \in Emails, password \in Passwords :
          NumUsers < MaxUsers /\ RegisterLookup(r, email, "name", password)
    \/ \E r \in Slots : RegisterCommit(r)
    \/ \E r \in Slots, email \in Emails, password \in Passwords :
          Login(r, email, password)
    \/ \E r \in Slots : Respond(r)

SpecAuth == InitAuth /\ [][NextAuth]_vars

\* ---------------------------------------------------- login and is_active
\* login on a users table as an administrator may have left it: each
\* account there or not, enabled or disabled (users.is_active)
StoredUser(u, active) ==
    [NewUser(EmailOf(u), u, HashPassword(PasswordOf(u))) EXCEPT !.is_active = active]
StoredUsers ==
    UNION {[present -> {StoredUser(u, a) : u \in Users, a \in BOOLEAN}] :
              present \in SUBSET Users}

InitLogin ==
    /\ users \in {tbl \in StoredUsers : \A u \in DOMAIN tbl : tbl[u].email = EmailOf(u)}
    /\ sessions = EmptyFn /\ questions = EmptyFn /\ feedback = EmptyFn
    /\ req = [r \in 1..NumSlots |-> IdleReq]

NextLogin ==
    \/ \E r \in Slots, email \in Emails, password \in Passwords :
          Login(r, email, password)
    \/ \E r \in Slots : Respond(r)

SpecLogin == InitLogin /\ [][NextLogin]_vars

\* ------------------------------------------------------------------ claims
store == <<users, sessions, questions, feedback>>

Answered(q) == questions[q].user_answer # NoAnswer

\* a submit_answer request that has just returned 200
Succeeded(r) == req[r].pc = "done" /\ req[r].op = "submit" /\ req[r].status = OK200

\* a submit_answer request whose AI evaluation has just failed
EvaluationFailed(r) ==
    req[r].pc = "done" /\ req[r].op = "submit" /\ req[r].ai_called
        /\ req[r].status \in AIFailures

\* one feedback score per question of the session
OneScorePerQuestion(sid) ==
    \A q \in QuestionsOf(sid) : Len(feedback[q]) = 1

\* fs is the mean of exactly n scores, one for each question of the session
IsMeanOfAll(fs, sid, n) ==
    /\ fs.len = n
    /\ OneScorePerQuestion(sid)
    /\ fs.sum = SumSeq(SessionFeedbackScores(sid))

\* C1: the k-th successful submit_answer of an n-question session, made
\* while no other submission of that session was in flight, answers
\* session_complete = is_last_question = TRUE exactly when k = n.
C1_CompleteIffLast ==
    \A r \in Slots :
        (Succeeded(r) /\ ~req[r].overlap)
            => (req[r].is_last <=> (req[r].answered_after = req[r].count))

\* C2: in every committed state a session is completed exactly when all
\* question_count questions have an answer, and final_score is non-null
\* exactly when the session is completed.
C2_CompletedIffAllAnswered ==
    \A s \in DOMAIN sessions :
        /\ (sessions[s].is_completed = "true")
              <=> (AnsweredCount(s) = sessions[s].question_count)
        /\ (sessions[s].final_score # NullScore)
              <=> (sessions[s].is_completed = "true")

C4_ConcurrentLastTwoComplete ==
    \A r1, r2 \in Slots :
        ( /\ r1 # r2
          /\ Succeeded(r1) /\ Succeeded(r2)
          /\ req[r1].overlap /\ req[r2].overlap
          /\ req[r1].sid = req[r2].sid /\ req[r1].qid # req[r2].qid
          /\ AnsweredCount(req[r1].sid) = req[r1].count )
            => /\ sessions[req[r1].sid].is_completed = "true"
               /\ IsMeanOfAll(sessions[req[r1].sid].final_score, req[r1].sid, req[r1].count)

\* C5: start_session is all-or-nothing.  While the request runs and after
\* it failed, no session row and no question row of it is in the database;
\* after it succeeded the session is there with all its questions, and no
\* committed state holds a session with only part of its questions.
C5_StartAllOrNothing ==
    /\ \A r \in Slots :
          (req[r].op = "start" /\ req[r].pc # "idle") =>
              IF req[r].pc = "done" /\ req[r].status = Created201
              THEN /\ req[r].sid \in DOMAIN sessions
                   /\ Cardinality(QuestionsOf(req[r].sid)) = req[r].count
              ELSE /\ req[r].sid \notin DOMAIN sessions
                   /\ QuestionsOf(req[r].sid) = {}
    /\ \A s \in DOMAIN sessions :
          Cardinality(QuestionsOf(s)) = sessions[s].question_count
    /\ \A q \in DOMAIN questions : questions[q].session_id \in DOMAIN sessions

\* a start_session whose AI call failed has returned
W5_StartFailed ==
    \E r \in Slots :
        req[r].op = "start" /\ req[r].pc = "done" /\ req[r].status = Unavailable503

\* C6: a committed session with question_count n has exactly n questions,
\* order_index 0..n-1 each used once, the question at order_index i holding
\* the (i+1)-th text of the provider's list.
C6_ExactlyNQuestionsInOrder ==
    \A s \in DOMAIN sessions :
        LET n == sessions[s].question_count
            qs == QuestionsOf(s)
        IN  /\ n \in MinQuestions..MaxQuestions
            /\ Cardinality(qs) = n
            /\ \A i \in 0..(n - 1) :
                  Cardinality({q \in qs : questions[q].order_index = i}) = 1
            /\ \A q \in qs : questions[q].question_text = questions[q].order_index + 1

\* a start_session succeeded although the provider sent more than n texts
W6_ProviderSentMore ==
    \E r \in Slots :
        /\ req[r].op = "start" /\ req[r].pc = "done" /\ req[r].status = Created201
        /\ req[r].provided > req[r].count
        /\ req[r].count = MaxQuestions

\* C7: submit_answer by the owner on a question with a committed answer
\* ends at once with 400, makes no AI call, and changes no row.
C7_ResubmissionRejected ==
    [][\A r \in Slots :
          ( /\ req[r].pc = "idle" /\ req'[r].pc # "idle" /\ req'[r].op = "submit"
            /\ SessionForUser(req'[r].sid, req'[r].user_id)
            /\ QuestionInSession(req'[r].qid, req'[r].sid)
            /\ Answered(req'[r].qid) )
          => ( /\ req'[r].pc = "done"
               /\ req'[r].status = BadRequest400
               /\ ~req'[r].ai_called
               /\ store' = store )]_vars

\* a re-submission has been rejected
W7_Rejected ==
    \E r \in Slots :
        /\ req[r].op = "submit" /\ req[r].pc = "done" /\ req[r].status = BadRequest400
        /\ Answered(req[r].qid) /\ Len(feedback[req[r].qid]) = 1

\* C8: a question never has two feedback rows, its stored answer is the one
\* its feedback row evaluated, two requests on one question are never both
\* successful, and a stored answer never changes.
C8_WriteOnceAnswer ==
    /\ [](/\ \A q \in DOMAIN questions :
               /\ Len(feedback[q]) <= 1
               /\ Len(feedback[q]) = 1 => feedback[q][1].evaluated = questions[q].user_answer
          /\ \A r1, r2 \in Slots :
               (r1 # r2 /\ Succeeded(r1) /\ Succeeded(r2)) => req[r1].qid # req[r2].qid)
    /\ [][\A q \in DOMAIN questions :
             Answered(q) => questions'[q].user_answer = questions[q].user_answer]_vars

\* two concurrent requests on one question: one succeeded, the other failed
W8_ConcurrentSameQuestion ==
    \E r1, r2 \in Slots :
        /\ r1 # r2 /\ req[r1].qid = req[r2].qid
        /\ req[r1].overlap /\ req[r2].overlap
        /\ Succeeded(r1)
        /\ req[r2].op = "submit" /\ req[r2].pc = "done" /\ req[r2].status = ServerError500
        /\ req[r2].detail = "IntegrityError"

\* C9: in every committed state a question has a feedback row exactly when
\* its user_answer is non-null.
C9_FeedbackIffAnswered ==
    \A q \in DOMAIN questions : (feedback[q] # <<>>) <=> Answered(q)

\* an evaluation failed on one question while another one is answered
W9_FailedAndAnswered ==
    \E r \in Slots :
        /\ EvaluationFailed(r) /\ ~Answered(req[r].qid)
        /\ \E q \in DOMAIN questions : Answered(q) /\ feedback[q] # <<>>

C11_ForeignSessionLooksAbsent ==
    [][\A r \in Slots :
          ( /\ req[r].pc = "idle" /\ req'[r].pc # "idle" /\ req'[r].op = "submit"
            /\ ~( /\ req'[r].sid \in DOMAIN sessions
                  /\ sessions[req'[r].sid].user_id = req'[r].user_id ) )
          => ( /\ req'[r] = [IdleReq EXCEPT !.pc = "done", !.op = "submit",
                                  !.user_id = req'[r].user_id, !.sid = req'[r].sid,
                                  !.qid = req'[r].qid, !.answer = req'[r].answer,
                                  !.status = NotFound404,
                                  !.detail = "Session not found."]
               /\ ~req'[r].ai_called
               /\ \A o \in Slots \ {r} : req'[o] = req[o]
               /\ store' = store )]_vars

\* one user has been answered for a session of another user and for a
\* session id that does not exist, with the same status and detail
W11_ForeignAndAbsent ==
    \E r1, r2 \in Slots :
        /\ r1 # r2 /\ req[r1].user_id = req[r2].user_id
        /\ req[r1].op = "submit" /\ req[r1].pc = "done"
        /\ req[r2].op = "submit" /\ req[r2].pc = "done"
        /\ req[r1].sid \in DOMAIN sessions
        /\ sessions[req[r1].sid].user_id # req[r1].user_id
        /\ req[r2].sid \notin DOMAIN sessions
        /\ req[r1].status = NotFound404 /\ req[r2].status = req[r1].status
        /\ req[r2].detail = req[r1].detail

\* The provider answered in time with status 200 and a body whose first
\* choice holds a message content that is a JSON object.
SentObject(response) ==
    /\ response.connect /\ response.silence <= TimeoutSeconds
    /\ response.status_code = OK200
    /\ response.content.ok /\ response.content.v.t = "object"
    /\ "choices" \in DOMAIN response.content.v.v
    /\ response.content.v.v["choices"].t = "list"
    /\ response.content.v.v["choices"].v # <<>>
    /\ LET choice == response.content.v.v["choices"].v[1]
       IN  /\ choice.t = "object" /\ "message" \in DOMAIN choice.v
           /\ choice.v["message"].t = "object"
           /\ "content" \in DOMAIN choice.v["message"].v
           /\ choice.v["message"].v["content"].t = "text"
           /\ choice.v["message"].v["content"].ok
           /\ choice.v["message"].v["content"].v.t = "object"

\* the members of that JSON object
Payload(response) ==
    response.content.v.v["choices"].v[1].v["message"].v["content"].v.v

FeedbackKeys == {"score", "overall_feedback", "strengths", "improvements"}

\* a list whose entries are all strings
StringsOnly(j) == j.t = "list" /\ \A i \in DOMAIN j.v : j.v[i].t = "str"

\* the provider sent an evaluation object that has all four fields
SentAllKeys(response) ==
    SentObject(response) /\ FeedbackKeys \subseteq DOMAIN Payload(response)

\* ... and every field has the type the prompt asks for
SentValidEvaluation(response) ==
    /\ SentAllKeys(response)
    /\ Payload(response)["score"].t = "int"
    /\ Payload(response)["overall_feedback"].t = "str"
    /\ StringsOnly(Payload(response)["strengths"])
    /\ StringsOnly(Payload(response)["improvements"])

\* the gateway call of request r has returned or raised
Called(r) == req[r].ai_called /\ req[r].pc \in {"count", "commit", "done"}

\* evaluate_answer has returned to request r without raising
Evaluated(r) ==
    /\ req[r].op = "submit" /\ req[r].ai_called
    /\ \/ req[r].pc \in {"count", "commit"}
       \/ req[r].pc = "done" /\ req[r].status = OK200

\* the first n entries of the sequence s
FirstN(s, n) == [i \in 1..(IF Len(s) < n THEN Len(s) ELSE n) |-> s[i]]

\* C12: for an evaluation that is valid but for the range of its integer
\* score s, evaluate_answer succeeds and hands over min(100, max(0, s)),
\* which is the score of the stored feedback row; every stored score is
\* in 0..100.
C12_ScoreClamped ==
    /\ \A r \in Slots :
          (req[r].op = "submit" /\ Called(r) /\ SentValidEvaluation(req[r].response))
             => LET s == Payload(req[r].response)["score"].v
                    clamped == IF s > 100 THEN 100 ELSE IF s < 0 THEN 0 ELSE s
                IN  /\ Evaluated(r)
                    /\ req[r].score = clamped
                    /\ req[r].evaluation.v["score"] = JInt(clamped)
                    /\ req[r].pc = "done" =>
                          /\ Len(feedback[req[r].qid]) = 1
                          /\ feedback[req[r].qid][1].score = clamped
    /\ \A q \in DOMAIN feedback : \A i \in DOMAIN feedback[q] :
          feedback[q][i].score \in 0..100

\* a score of -5 has been stored as 0 and a score of 150 as 100
W12_BothEndsClamped ==
    \E r \in Slots :
        /\ Succeeded(r) /\ SentValidEvaluation(req[r].response)
        /\ Payload(req[r].response)["score"].v = 0 - 5
        /\ feedback[req[r].qid][1].score = 0
        /\ \E q \in DOMAIN feedback \ {req[r].qid} :
               feedback[q] # <<>> /\ feedback[q][1].score = 100

\* C13: for a valid evaluation the stored strengths and improvements are
\* the first min(m, 5) entries the provider sent, in their order; more
\* than 5 entries do not fail the request.
C13_ListsTruncatedToFive ==
    \A r \in Slots :
        (req[r].op = "submit" /\ Called(r) /\ SentValidEvaluation(req[r].response))
           => /\ Evaluated(r)
              /\ req[r].evaluation.v["strengths"] =
                     JList(FirstN(Payload(req[r].response)["strengths"].v, 5))
              /\ req[r].evaluation.v["improvements"] =
                     JList(FirstN(Payload(req[r].response)["improvements"].v, 5))
              /\ req[r].pc = "done" =>
                    /\ Len(feedback[req[r].qid]) = 1
                    /\ feedback[req[r].qid][1].strengths =
                           req[r].evaluation.v["strengths"]
                    /\ feedback[req[r].qid][1].improvements =
                           req[r].evaluation.v["improvements"]

\* an evaluation with more than 5 strengths has been stored with 5
W13_EightStoredAsFive ==
    \E r \in Slots :
        /\ Succeeded(r) /\ SentValidEvaluation(req[r].response)
        /\ Len(Payload(req[r].response)["strengths"].v) > 5
        /\ Len(feedback[req[r].qid][1].strengths.v) = 5
        /\ feedback[req[r].qid][1].strengths.v[5] =
               Payload(req[r].response)["strengths"].v[5]

\* the provider sent an object with fewer than count question texts
SentTooFewQuestions(response, count) ==
    /\ SentObject(response)
    /\ \/ "questions" \notin DOMAIN Payload(response)
       \/ /\ Payload(response)["questions"].t = "list"
          /\ Len(Payload(response)["questions"].v) < count

\* C14: when the provider returns fewer than count questions, none, or no
\* "questions" key, start_session ends with 502 and the database holds no
\* row of the session and no question of it.
C14_TooFewQuestionsRejected ==
    \A r \in Slots :
        ( /\ req[r].op = "start" /\ Called(r)
          /\ SentTooFewQuestions(req[r].response, req[r].count) )
           => /\ req[r].pc = "done" /\ req[r].status = BadGateway502
              /\ req[r].sid \notin DOMAIN sessions
              /\ QuestionsOf(req[r].sid) = {}

\* a start_session has failed on a list that was one question short
W14_OneShort ==
    \E r \in Slots :
        /\ req[r].op = "start" /\ req[r].pc = "done" /\ req[r].ai_called
        /\ SentObject(req[r].response)
        /\ "questions" \in DOMAIN Payload(req[r].response)
        /\ Payload(req[r].response)["questions"].t = "list"
        /\ Len(Payload(req[r].response)["questions"].v) = req[r].count - 1
        /\ req[r].status = BadGateway502

\* the call failed at the network level, ran into the timeout, or was
\* answered with a non-success status
ProviderUnavailable(response) ==
    \/ ~response.connect
    \/ response.silence > TimeoutSeconds
    \/ response.status_code \notin 200..299

\* C15: a gateway call that fails at the network level, exceeds the
\* timeout of 30, or gets a non-success HTTP status ends the request with
\* 503 and nothing else.
C15_UnavailableIs503 ==
    \A r \in Slots :
        (Called(r) /\ ProviderUnavailable(req[r].response))
           => (req[r].pc = "done" /\ req[r].status = Unavailable503)

\* what does hold: a non-success status that was received ends with 503
NonSuccessStatusIs503 ==
    \A r \in Slots :
        ( /\ Called(r) /\ req[r].response.connect
          /\ req[r].response.silence <= TimeoutSeconds
          /\ req[r].response.status_code \notin 200..299 )
           => (req[r].pc = "done" /\ req[r].status = Unavailable503)

\* a success-status response that does not hold a JSON object in the
\* message content of its first choice
SentMalformed(response) ==
    /\ response.connect /\ response.silence <= TimeoutSeconds
    /\ response.status_code \in 200..299
    /\ ~SentObject(response)

\* C16: a success-status response whose body is not JSON, has no or an
\* empty choices list, or whose message content is not a JSON object ends
\* the request with 502 and nothing else.
C16_MalformedIs502 ==
    \A r \in Slots :
        (Called(r) /\ SentMalformed(req[r].response))
           => (req[r].pc = "done" /\ req[r].status = BadGateway502)

\* the provider sent an evaluation object that lacks one of the four keys
SentIncomplete(response) ==
    SentObject(response) /\ ~(FeedbackKeys \subseteq DOMAIN Payload(response))

\* C17: an evaluation object without score, overall_feedback, strengths or
\* improvements ends submit_answer with 502; the step changes no row, so no
\* feedback is stored, the question stays unanswered and the session is
\* not completed.
C17_MissingKeysRejected ==
    /\ [][\A r \in Slots :
             ( /\ req[r].pc = "evaluate" /\ req'[r].pc # "evaluate"
               /\ SentIncomplete(req'[r].response) )
                => ( /\ req'[r].pc = "done" /\ req'[r].status = BadGateway502
                     /\ store' = store )]_vars
    /\ [](\A r \in Slots :
             (req[r].op = "submit" /\ Called(r) /\ SentIncomplete(req[r].response))
                => /\ req[r].pc = "done" /\ req[r].status = BadGateway502
                   /\ feedback[req[r].qid] = <<>>
                   /\ ~Answered(req[r].qid)
                   /\ sessions[req[r].sid].is_completed = "false"
                   /\ sessions[req[r].sid].final_score = NullScore)

\* an evaluation that lacked only its strengths has been refused
W17_StrengthsMissing ==
    \E r \in Slots :
        /\ req[r].op = "submit" /\ req[r].pc = "done" /\ req[r].ai_called
        /\ SentObject(req[r].response)
        /\ DOMAIN Payload(req[r].response) = FeedbackKeys \ {"strengths"}
        /\ req[r].status = BadGateway502
        /\ feedback[req[r].qid] = <<>>

\* the provider sent a questions object whose "questions" is not a list of
\* strings
SentIllTypedQuestions(response) ==
    /\ SentObject(response)
    /\ "questions" \in DOMAIN Payload(response)
    /\ ~StringsOnly(Payload(response)["questions"])

\* the provider sent all four evaluation fields, one of them ill-typed
SentIllTypedEvaluation(response) ==
    SentAllKeys(response) /\ ~SentValidEvaluation(response)

\* C18: what the gateway hands over is validated.  generate_questions
\* returns only on a list of strings and evaluate_answer only with a string
\* overall_feedback and lists of strings; a payload with a field of another
\* type ends the request with 502.
C18_OnlyValidatedFields ==
    \A r \in Slots :
        /\ (req[r].op = "start" /\ Called(r)
               /\ SentIllTypedQuestions(req[r].response))
              => (req[r].pc = "done" /\ req[r].status = BadGateway502)
        /\ (req[r].op = "submit" /\ Called(r)
               /\ SentIllTypedEvaluation(req[r].response))
              => (req[r].pc = "done" /\ req[r].status = BadGateway502)
        /\ (req[r].op = "submit" /\ Called(r) /\ req[r].pc \in {"count", "commit"})
              => /\ req[r].evaluation.v["score"].t = "int"
                 /\ req[r].evaluation.v["overall_feedback"].t = "str"
                 /\ StringsOnly(req[r].evaluation.v["strengths"])
                 /\ StringsOnly(req[r].evaluation.v["improvements"])

\* the outbound call of request r to the AI provider is in flight
AwaitingAI(r) == req[r].pc \in {"generate", "evaluate"}

\* C19: while the AI call of a request is in flight the request has no
\* open database transaction: no flushed uncommitted write and no
\* transaction begun by an earlier read.
C19_NoTransactionDuringAICall ==
    \A r \in Slots : AwaitingAI(r) => req[r].txn = "none"

\* what does hold: every request waits for the AI inside a transaction,
\* start_session with its flushed INSERT, submit_answer after its SELECTs
AlwaysInTransactionDuringAICall ==
    \A r \in Slots :
        AwaitingAI(r) =>
            req[r].txn = (IF req[r].op = "start" THEN "write" ELSE "read")

\* C20: once a session is completed, no step of any request changes its
\* completed flag or its final_score.  No run reaches a completed session
\* (NoSessionCompleted), so no step is ever put to this test.
C20_CompletedIsFinal ==
    [][\A s \in DOMAIN sessions :
          sessions[s].is_completed = "true"
             => /\ s \in DOMAIN sessions'
                /\ sessions'[s].is_completed = "true"
                /\ sessions'[s].final_score = sessions[s].final_score]_vars

\* a request that runs alone never takes the is_last branch
NeverLastAlone == \A r \in Slots : req[r].pc # "scores" /\ ~req[r].is_last

\* no committed session is ever marked completed
NoSessionCompleted ==
    \A s \in DOMAIN sessions :
        sessions[s].is_completed = "false" /\ sessions[s].final_score = NullScore

\* C21: every committed session has exactly question_count questions, and
\* no step adds a question to, removes one from, or changes the
\* question_text or order_index of a question of an existing session.
C21_QuestionsFixed ==
    [][/\ \A s \in DOMAIN sessions' :
              Cardinality({q \in DOMAIN questions' : questions'[q].session_id = s})
                  = sessions'[s].question_count
       /\ \A s \in DOMAIN sessions :
              /\ s \in DOMAIN sessions'
              /\ {q \in DOMAIN questions' : questions'[q].session_id = s} = QuestionsOf(s)
              /\ \A q \in QuestionsOf(s) :
                     /\ questions'[q].question_text = questions[q].question_text
                     /\ questions'[q].order_index = questions[q].order_index]_vars

\* a session created from a longer provider list, with an answer committed
W21_AnsweredSessionKeepsQuestions ==
    \E s \in DOMAIN sessions :
        /\ Cardinality(QuestionsOf(s)) = sessions[s].question_count
        /\ \E q \in QuestionsOf(s) : Answered(q)
        /\ \E q \in QuestionsOf(s) : ~Answered(q)
        /\ \E r \in Slots : Succeeded(r) /\ req[r].sid = s

\* C22: the order in which the questions of a session are answered does
\* not matter.  Two sessions of the same size answered one submission at a
\* time: the responses at the same position k carry the same
\* session_complete flag and final_score, two fully answered sessions end
\* with the same completed flag and final_score, and no submission for an
\* open question of the caller's session is rejected (whatever questions
\* of lower order_index are still open).
SamePositionSameFlags ==
    \A r1, r2 \in Slots :
        (/\ Succeeded(r1) /\ Succeeded(r2)
         /\ req[r1].count = req[r2].count
         /\ req[r1].answered_after = req[r2].answered_after)
            => /\ req[r1].is_last = req[r2].is_last
               /\ req[r1].final_score = req[r2].final_score

FullyAnswered(s) == \A q \in QuestionsOf(s) : Answered(q)

SameFinalState ==
    \A s1, s2 \in DOMAIN sessions :
        (/\ sessions[s1].question_count = sessions[s2].question_count
         /\ FullyAnswered(s1) /\ FullyAnswered(s2))
            => /\ sessions[s1].is_completed = sessions[s2].is_completed
               /\ sessions[s1].final_score = sessions[s2].final_score

C22_AnsweringOrderIrrelevant ==
    /\ [](SamePositionSameFlags /\ SameFinalState)
    /\ [][\A r \in Slots :
              (/\ req[r].pc = "idle" /\ req'[r].op = "submit"
               /\ SessionForUser(req'[r].sid, req'[r].user_id)
               /\ QuestionInSession(req'[r].qid, req'[r].sid)
               /\ ~Answered(req'[r].qid))
                  => req'[r].pc = "evaluate"]_vars

\* two sessions fully answered whose last answers were given to questions
\* of different order_index: the two orders differ
W22_TwoOrders ==
    \E r1, r2 \in Slots :
        /\ Succeeded(r1) /\ Succeeded(r2) /\ req[r1].sid # req[r2].sid
        /\ FullyAnswered(req[r1].sid) /\ FullyAnswered(req[r2].sid)
        /\ req[r1].answered_after = req[r1].count
        /\ req[r2].answered_after = req[r2].count
        /\ req[r1].qid[2] < req[r2].qid[2]
        /\ req[r2].qid[2] < req[r2].count - 1

\* C23: submit_answer for a session of the caller with a question id that
\* no question has, or that a question of another session has (another
\* session of the caller included), ends with 404 "Question not found.",
\* calls no AI and leaves every row unchanged.
C23_ForeignQuestionNotFound ==
    [][\A r \in Slots :
          (/\ req[r].pc = "idle" /\ req'[r].op = "submit"
           /\ req'[r].sid \in DOMAIN sessions
           /\ sessions[req'[r].sid].user_id = req'[r].user_id
           /\ \/ req'[r].qid \notin DOMAIN questions
              \/ questions[req'[r].qid].session_id # req'[r].sid)
              => /\ req'[r].pc = "done"
                 /\ req'[r].status = NotFound404
                 /\ req'[r].detail = "Question not found."
                 /\ ~req'[r].ai_called
                 /\ store' = store]_vars

\* refused: an open question of another session of the same caller
W23_QuestionOfOwnOtherSession ==
    \E r \in Slots :
        /\ req[r].pc = "done" /\ req[r].op = "submit"
        /\ req[r].status = NotFound404 /\ req[r].detail = "Question not found."
        /\ req[r].sid \in DOMAIN sessions
        /\ req[r].qid \in DOMAIN questions
        /\ ~Answered(req[r].qid)
        /\ questions[req[r].qid].session_id # req[r].sid
        /\ sessions[questions[req[r].qid].session_id].user_id = req[r].user_id
        /\ sessions[req[r].sid].user_id = req[r].user_id

\* ---------------------------------------------- claims: analytics, history
\* a get_analytics / get_history request that has just returned
Analysed(r) == req[r].pc = "done" /\ req[r].op = "analytics"
Listed(r) == req[r].pc = "done" /\ req[r].op = "history"

\* the completed sessions of a user, and those with a final_score
CompletedOf(uid) ==
    {s \in DOMAIN sessions :
        sessions[s].user_id = uid /\ sessions[s].is_completed = "true"}
ScoredOf(uid) == {s \in CompletedOf(uid) : sessions[s].final_score # NullScore}

IsZero(x) == x.len > 0 /\ x.sum = 0
AllZero(trend) ==
    DOMAIN trend = 1..DaysInTrend /\ \A k \in 1..DaysInTrend : IsZero(trend[k])

\* x is a multiple of 0.1 and no other multiple of 0.1 is nearer to y
ToOneDecimal(x, y) ==
    /\ x.len > 0 /\ (10 * x.sum) % x.len = 0
    /\ LET d == x.sum * y.len - y.sum * x.len
       IN  20 * (IF d < 0 THEN 0 - d ELSE d) <= x.len * y.len

\* the mean of the final_score values of the sessions in S (S not empty)
MeanOf(S) == [sum |-> SumScores(S).sum, len |-> SumScores(S).len * Cardinality(S)]
\* y is the largest final_score of the sessions in S
IsMaxOf(y, S) ==
    /\ \E s \in S : FloatEq(sessions[s].final_score, y)
    /\ \A s \in S : ~FloatLess(y, sessions[s].final_score)

\* C24: for a user without a completed session that has a final_score,
\* get_analytics answers 200 with total_sessions 0, average_score 0.0,
\* best_score 0.0 and seven zeros.
C24_NothingCompletedAllZero ==
    \A r \in Slots :
        (Analysed(r) /\ ScoredOf(req[r].user_id) = {})
            => /\ req[r].status = OK200
               /\ req[r].result.total_sessions = 0
               /\ IsZero(req[r].result.average_score)
               /\ IsZero(req[r].result.best_score)
               /\ AllZero(req[r].result.weekly_scores)

\* a user whose sessions are all in progress, while another user has scores
W24_OnlyOpenSessions ==
    \E r \in Slots :
        /\ Analysed(r) /\ req[r].result.total_sessions = 0
        /\ CompletedOf(req[r].user_id) = {}
        /\ \E s \in DOMAIN sessions : sessions[s].user_id = req[r].user_id
        /\ \E s \in DOMAIN sessions : sessions[s].final_score # NullScore

\* C25: total_sessions is the number of the user's completed sessions with
\* a final_score, average_score their mean and best_score their maximum,
\* both to one decimal; no other session contributes.
C25_TotalsOfOwnScoredSessions ==
    \A r \in Slots :
        Analysed(r) =>
            LET S == ScoredOf(req[r].user_id)
            IN  /\ req[r].result.total_sessions = Cardinality(S)
                /\ S # {} =>
                      /\ ToOneDecimal(req[r].result.average_score, MeanOf(S))
                      /\ \E y \in {sessions[s].final_score : s \in S} :
                            IsMaxOf(y, S) /\ ToOneDecimal(req[r].result.best_score, y)

\* two scored sessions of the user with different scores, next to a scored
\* session of another user
W25_TwoOwnOneForeign ==
    \E r \in Slots :
        /\ Analysed(r) /\ req[r].result.total_sessions = 2
        /\ FloatLess(req[r].result.average_score, req[r].result.best_score)
        /\ \E s \in DOMAIN sessions :
              sessions[s].user_id # req[r].user_id /\ sessions[s].final_score # NullScore

\* the day of entry k of the trend of request r, and its sessions
TrendDay(r, k) == Date(req[r].now) - (DaysInTrend - k)
CreatedOn(uid, d) ==
    {s \in ScoredOf(uid) : Date(sessions[s].created_at) = d}

TrendEndsWithToday ==
    \E r \in Slots :
        /\ Analysed(r)
        /\ ~IsZero(req[r].result.weekly_scores[DaysInTrend])
        /\ \A k \in 1..(DaysInTrend - 1) : IsZero(req[r].result.weekly_scores[k])
        /\ CreatedOn(req[r].user_id, TrendDay(r, 1) - 1) # {}

\* C27: get_history with limit >= 0 returns min(limit, number of the
\* user's completed sessions) items, each a different completed session of
\* the user, newest first, no session left out being newer than one that
\* is returned, with score = final_score, or 0.0 for a NULL final_score.
C27_HistoryNewestCompleted ==
    \A r \in Slots :
        Listed(r) =>
            LET S == CompletedOf(req[r].user_id)
                items == req[r].result
                ids == {items[k].id : k \in DOMAIN items}
            IN  /\ Len(items) = Min(req[r].limit, Cardinality(S))
                /\ ids \subseteq S /\ Cardinality(ids) = Len(items)
                /\ \A k \in DOMAIN items :
                      /\ items[k].completed_at = sessions[items[k].id].created_at
                      /\ k > 1 => items[k - 1].completed_at >= items[k].completed_at
                      /\ \A s \in S \ ids :
                            sessions[s].created_at <= items[k].completed_at
                      /\ IF sessions[items[k].id].final_score = NullScore
                         THEN IsZero(items[k].score)
                         ELSE FloatEq(items[k].score, sessions[items[k].id].final_score)

\* the limit cuts off the oldest completed session; one of the two that
\* are returned has no final_score; a session in progress is newer still
W27_LimitKeepsNewest ==
    \E r \in Slots :
        /\ Listed(r) /\ Len(req[r].result) = 2 /\ req[r].limit = 2
        /\ Cardinality(CompletedOf(req[r].user_id)) = 3
        /\ req[r].result[1].completed_at > req[r].result[2].completed_at
        /\ \E s \in CompletedOf(req[r].user_id) :
              sessions[s].created_at < req[r].result[2].completed_at
        /\ \E k \in 1..2 : sessions[req[r].result[k].id].final_score = NullScore

\* C28: get_analytics and get_history only read: the step of either leaves
\* every user, session, question and feedback row as it was, and adds or
\* removes none.
C28_AnalyticsAndHistoryOnlyRead ==
    [][\A r \in Slots :
          (req[r].pc = "idle" /\ req'[r].op \in {"analytics", "history"})
              => store' = store]_vars

\* a history was returned, and the sessions it lists are still stored
W28_ListedSessionsStillStored ==
    \E r \in Slots :
        /\ Listed(r) /\ Len(req[r].result) > 0
        /\ \A k \in DOMAIN req[r].result :
              /\ req[r].result[k].id \in DOMAIN sessions
              /\ sessions[req[r].result[k].id].is_completed = "true"
        /\ DOMAIN sessions = 1..MaxStoredSessions

\* ------------------------------------------------------- claims: accounts
\* the response of request r as the caller sees it
ResponseOf(r) ==
    [status |-> req[r].status, detail |-> req[r].detail, headers |-> req[r].headers,
     result |-> req[r].result]

\* C29: register with an email that a stored user has ends with 400,
\* returns no token and leaves every row as it was; a register whose email
\* no stored user has when it commits adds exactly one user, with that
\* email, and returns 201 with a token whose subject is the new user's id.
C29_RegisterDuplicateOrCreate ==
    [][\A r \in Slots :
          /\ (/\ req[r].pc = "idle" /\ req'[r].op = "register"
              /\ \E u \in DOMAIN users : users[u].email = req'[r].email)
                 => /\ req'[r].pc = "done"
                    /\ req'[r].status = BadRequest400
                    /\ req'[r].result = NoResult
                    /\ store' = store
          /\ (/\ req[r].pc = "commit" /\ req[r].op = "register" /\ req'[r].pc = "done"
              /\ \A u \in DOMAIN users : users[u].email # req[r].email)
                 => /\ \E u \in DOMAIN users' \ DOMAIN users :
                          /\ DOMAIN users' = DOMAIN users \cup {u}
                          /\ users'[u].email = req[r].email
                          /\ req'[r].result.access_token.sub = u
                    /\ \A u \in DOMAIN users : users'[u] = users[u]
                    /\ req'[r].status = Created201]_vars

\* one request registered the email, a later one was refused with it, and
\* the account is the one the first request created
W29_CreatedThenRefused ==
    \E r1, r2 \in Slots :
        /\ req[r1].pc = "done" /\ req[r1].op = "register" /\ req[r1].status = Created201
        /\ req[r2].pc = "done" /\ req[r2].op = "register" /\ req[r2].status = BadRequest400
        /\ req[r1].email = req[r2].email /\ req[r1].password # req[r2].password
        /\ Cardinality({u \in DOMAIN users : users[u].email = req[r1].email}) = 1
        /\ req[r1].result.access_token.sub \in DOMAIN users
        /\ users[req[r1].result.access_token.sub].email = req[r1].email
        /\ VerifyPassword(req[r1].password,
                          users[req[r1].result.access_token.sub].hashed_password)

\* C30: login with an email that no user has and login with the email of
\* a user and a wrong password give the same response: 401, the same
\* detail, the same headers, and no token.
C30_LoginFailuresLookAlike ==
    [][\A r \in Slots :
          (/\ req[r].pc = "idle" /\ req'[r].op = "login"
           /\ \A u \in DOMAIN users :
                 users[u].email = req'[r].email
                    => users[u].hashed_password # HashPassword(req'[r].password))
              => /\ req'[r].pc = "done"
                 /\ req'[r].status = Unauthorized401
                 /\ req'[r].detail = "Invalid email or password."
                 /\ req'[r].headers = {<<"WWW-Authenticate", "Bearer">>}
                 /\ req'[r].result = NoResult
                 /\ store' = store]_vars

\* two failed logins with the same response, one with an email that no
\* user has, one with the email of a user and another password
W30_UnknownEmailAndWrongPassword ==
    \E r1, r2 \in Slots :
        /\ req[r1].pc = "done" /\ req[r1].op = "login"
        /\ req[r2].pc = "done" /\ req[r2].op = "login"
        /\ \A u \in DOMAIN users : users[u].email # req[r1].email
        /\ \E u \in DOMAIN users :
              /\ users[u].email = req[r2].email
              /\ ~VerifyPassword(req[r2].password, users[u].hashed_password)
        /\ ResponseOf(r1) = ResponseOf(r2)
        /\ req[r1].status = Unauthorized401

SameRead(r1, r2) ==
    /\ req[r1].pc = "done" /\ req[r2].pc = "done"
    /\ req[r1].op = req[r2].op /\ req[r1].op \in {"analytics", "history"}
    /\ req[r1].user_id = req[r2].user_id
    /\ req[r1].now = req[r2].now /\ req[r1].limit = req[r2].limit

DistinctCreationTimes(uid) ==
    \A s1, s2 \in CompletedOf(uid) :
        s1 # s2 => sessions[s1].created_at # sessions[s2].created_at

Registered(r) ==
    req[r].pc = "done" /\ req[r].op = "register" /\ req[r].result # NoResult

\* C33: however concurrent register requests with the same email interleave,
\* no committed state holds two user rows with that email, at most one of
\* the requests returns a token, and a request that passed its duplicate
\* check but finds the email taken at commit adds no user and gets no token.
C33_OneUserPerEmail ==
    /\ [](\A e \in Emails :
            /\ Cardinality(UsersWithEmail(e)) <= 1
            /\ Cardinality({r \in Slots : Registered(r) /\ req[r].email = e}) <= 1)
    /\ [][\A r \in Slots :
             ( /\ req[r].pc = "commit" /\ req[r].op = "register"
               /\ UsersWithEmail(req[r].email) # {}
               /\ req'[r] # req[r] )
             => ( /\ users' = users
                  /\ req'[r].pc = "done"
                  /\ req'[r].status # Created201
                  /\ ~Registered(r)' )]_vars

\* two requests passed the duplicate check with the same email; one
\* created the user, the other failed at commit
W33_RaceLost ==
    \E r1, r2 \in Slots :
        /\ r1 # r2 /\ req[r1].email = req[r2].email
        /\ Registered(r1) /\ req[r1].status = Created201
        /\ req[r2].op = "register" /\ req[r2].pc = "done"
        /\ req[r2].status = ServerError500 /\ req[r2].detail = "IntegrityError"
        /\ Cardinality(UsersWithEmail(req[r1].email)) = 1

\* ------------------------------------------------ claims: disabled account
\* the login request r named the email of a disabled account
LoginOfDisabled(r) ==
    /\ req[r].pc = "done" /\ req[r].op = "login"
    /\ \E u \in DOMAIN users : users[u].email = req[r].email /\ ~users[u].is_active

\* the password of request r is the one of the account it named
RightPassword(r) ==
    \E u \in DOMAIN users :
        users[u].email = req[r].email /\ req[r].password = PasswordOf(u)

\* C34: a login for an account whose is_active is false never returns a
\* token; with the right password it answers 403, with a wrong one the
\* generic 401 of a failed login.
C34_DisabledAccountGetsNoToken ==
    \A r \in Slots :
        LoginOfDisabled(r) =>
            /\ req[r].result = NoResult
            /\ IF RightPassword(r)
               THEN /\ req[r].status = Forbidden403
                    /\ req[r].detail = "Your account has been disabled. Please contact support."
               ELSE /\ req[r].status = Unauthorized401
                    /\ req[r].detail = "Invalid email or password."
                    /\ req[r].headers = {<<"WWW-Authenticate", "Bearer">>}

\* a disabled account was refused once with its password and once without
W34_DisabledBothWays ==
    \E r1, r2 \in Slots :
        /\ LoginOfDisabled(r1) /\ LoginOfDisabled(r2) /\ req[r1].email = req[r2].email
        /\ RightPassword(r1) /\ req[r1].status = Forbidden403
        /\ ~RightPassword(r2) /\ req[r2].status = Unauthorized401

\* --------------------------------------------- claims: get_db sessions
\* the request of slot r holds a database session that get_db opened
SessionOpen(r) == req[r].pc # "idle"

\* the handler of slot r has raised
RequestRaised(r) ==
    req[r].pc = "done" /\ req[r].status \notin {OK200, Created201}

\* nothing that the raised request r had flushed or pending is stored
NothingOfItStored(r) ==
    /\ req[r].op = "start"
          => req[r].sid \notin DOMAIN sessions /\ QuestionsOf(req[r].sid) = {}
    /\ (req[r].op = "submit" /\ req[r].status \in AIFailures)
          => /\ questions[req[r].qid].user_answer # req[r].answer
             /\ \A i \in DOMAIN feedback[req[r].qid] :
                   feedback[req[r].qid][i].evaluated # req[r].answer

\* C35: every session that get_db opened for a request is eventually
\* closed, whether the handler returned or raised; and when the handler
\* raises before its commit, its transaction is rolled back: the step that
\* raises and the step that closes the session leave every table as it
\* was, and nothing the request had flushed or pending is ever stored.
C35_SessionsCloseAndRollBack ==
    /\ \A r \in 1..NumSlots : SessionOpen(r) ~> ~SessionOpen(r)
    /\ [](\A r \in Slots : RequestRaised(r) =>
              req[r].txn = "none" /\ NothingOfItStored(r))
    /\ [][\A r \in Slots :
             /\ (~RequestRaised(r) /\ RequestRaised(r)') => store' = store
             /\ (RequestRaised(r) /\ ~SessionOpen(r)') => store' = store]_vars

\* a submit_answer raised after assigning the answer: the question is
\* unanswered in the store, where another request's answer is committed
W35_RaisedAfterAssigning ==
    \E r \in Slots :
        /\ RequestRaised(r) /\ req[r].op = "submit" /\ req[r].ai_called
        /\ ~Answered(req[r].qid)
        /\ \E q \in QuestionsOf(req[r].sid) : Answered(q)

====
